---- MODULE Spec2Model ----
(***************************************************************************)
(* A model of the time service of mcp-server-time (internal/time):         *)
(* NewTimeService, GetCurrentTime, FormatTime, ParseTime, GetTimezoneInfo, *)
(* ConvertTimezone, IsFormatSupported, GetSupportedFormats, together with  *)
(* the part of Go's time and strconv packages that the service calls.      *)
(*                                                                         *)
(* A time.Time is [day, sod, nsec, loc]: the instant is day * 86400 + sod  *)
(* seconds after the Unix epoch plus nsec sub-second units, and loc is the *)
(* Location it carries.  A Location is [name, off]: a named zone of the    *)
(* timezone database (off unused), or the unnamed fixed zone that          *)
(* time.Parse makes for a numeric offset (name "").  Text is a record that *)
(* keeps the fields a string spells out, so formatting loses exactly what  *)
(* the layout omits and parsing rebuilds a time from what is written.      *)
(***************************************************************************)
EXTENDS Integers, Sequences, FiniteSets, TLC

(***************************************************************************)
(* Bounds of the model.                                                    *)
(***************************************************************************)
\* Parts of a unit in the next coarser one (milliseconds per second,
\* microseconds per millisecond, nanoseconds per microsecond).
UnitRatio == 2
\* Sample instants lie up to MaxStep half hours on either side of a base.
MaxStep == 1
\* Slices GetSupportedFormats may hand out in one run.
MaxCopies == 1

(***************************************************************************)
(* Units.                                                                  *)
(***************************************************************************)
SecondsPerHour == 3600
SecondsPerMinute == 60
SecondsPerDay == 24 * SecondsPerHour
HalfHour == 30 * SecondsPerMinute

NanoPerMicro == UnitRatio
NanoPerMilli == UnitRatio * UnitRatio
NanoPerSec == UnitRatio * UnitRatio * UnitRatio
MilliPerSec == UnitRatio
MicroPerSec == UnitRatio * UnitRatio

\* Go's integer division and remainder truncate toward zero.
Quot(a, b) == IF a >= 0 THEN a \div b ELSE -((-a) \div b)
Rem(a, b) == a - b * Quot(a, b)

(***************************************************************************)
(* The format identifiers (types.go) and the layouts used in the tests.    *)
(***************************************************************************)
FormatRFC3339 == "RFC3339"
FormatRFC3339Nano == "RFC3339Nano"
FormatUnix == "Unix"
FormatUnixMilli == "UnixMilli"
FormatUnixMicro == "UnixMicro"
FormatUnixNano == "UnixNano"
FormatLayout == "Layout"
DateTimeLayout == "2006-01-02 15:04:05"

NamedFormats ==
    {FormatRFC3339, FormatRFC3339Nano, FormatUnix, FormatUnixMilli,
     FormatUnixMicro, FormatUnixNano, FormatLayout}

IsValidFormat(format) == format \in NamedFormats

(***************************************************************************)
(* The timezone database: the zones the model knows, with the offsets and  *)
(* transitions of 1969-1971, and those of Europe/Berlin in 1947, the year  *)
(* of its midsummer time.  "Local" is the process's local zone.            *)
(***************************************************************************)
UTC == [name |-> "UTC", off |-> 0]
LocalLoc == [name |-> "Local", off |-> 0]
NamedLoc(n) == [name |-> n, off |-> 0]
FixedZone(n, offset) == [name |-> n, off |-> offset]

EST == [off |-> -5 * SecondsPerHour, abbr |-> "EST"]
EDT == [off |-> -4 * SecondsPerHour, abbr |-> "EDT"]

NewYorkRules ==
    [base |-> EST,
     trans |-> << [at |-> -21488400, zone |-> EDT],
                  [at |-> -5767200, zone |-> EST],
                  [at |-> 9961200, zone |-> EDT],
                  [at |-> 25682400, zone |-> EST],
                  [at |-> 41410800, zone |-> EDT],
                  [at |-> 57736800, zone |-> EST] >>]

FixedRules(offset, abbr) == [base |-> [off |-> offset, abbr |-> abbr], trans |-> << >>]

DatabaseZones == {"Etc/UTC", "America/New_York", "Asia/Tokyo", "Europe/Berlin"}

ZoneRules(n) ==
    CASE n = "America/New_York" -> NewYorkRules
      [] n = "Asia/Tokyo" -> FixedRules(9 * SecondsPerHour, "JST")
      [] n = "Europe/Berlin" ->
           [base |-> [off |-> SecondsPerHour, abbr |-> "CET"],
            trans |-> << [at |-> -717631200,
                          zone |-> [off |-> 2 * SecondsPerHour, abbr |-> "CEST"]],
                         [at |-> -714610800,
                          zone |-> [off |-> 3 * SecondsPerHour, abbr |-> "CEMT"]],
                         [at |-> -710380800,
                          zone |-> [off |-> 2 * SecondsPerHour, abbr |-> "CEST"]],
                         [at |-> -701910000,
                          zone |-> [off |-> SecondsPerHour, abbr |-> "CET"]] >>]
      [] OTHER -> FixedRules(0, "UTC")


(***************************************************************************)
(* State.                                                                  *)
(***************************************************************************)
VARIABLES
    heap,      \* backing arrays of the []string slices: array id -> sequence
    svc,       \* the timeService: defaultTimezone, defaultFormat, supportedFormats (an array id)
    passed,    \* the array id of the slice the caller passed to NewTimeService
    held,      \* the array ids GetSupportedFormats returned, in order
    atNew,     \* the contents of supportedFormats when NewTimeService returned
    local,     \* the database zone whose rules the process's Local zone follows
    metrics,   \* the Metrics instance: for each metric, its children by label values
    recorded,  \* the Record calls made on the Metrics instance, in order
    call       \* the call in progress or just returned: [op, in, out], or NoCall

vars == <<heap, svc, passed, held, atNew, local, metrics, recorded, call>>

NoCall == [op |-> "none"]

(***************************************************************************)
(* time.Location: LoadLocation and lookup.                                 *)
(***************************************************************************)
\* LoadLocation were it to fall back to UTC for a name it does not know.
LoadLocationLenient(n) ==
    CASE n = "Local" -> [ok |-> TRUE, loc |-> [name |-> "Local", off |-> 0]]
      [] n \in DatabaseZones -> [ok |-> TRUE, loc |-> [name |-> n, off |-> 0]]
      [] OTHER -> [ok |-> TRUE, loc |-> UTC]

\* time.LoadLocation: "" and "UTC" give UTC, "Local" gives Local, any other
\* name is looked up in the database.
LoadLocation(n) ==
    CASE n = "" \/ n = "UTC" -> [ok |-> TRUE, loc |-> UTC]
      [] n = "Local" -> [ok |-> TRUE, loc |-> LocalLoc]
      [] n \in DatabaseZones -> [ok |-> TRUE, loc |-> NamedLoc(n)]
      [] OTHER -> [ok |-> FALSE, loc |-> UTC]

RulesOf(loc) ==
    CASE loc.name = "" -> FixedRules(loc.off, "")
      [] loc.name = "Local" -> ZoneRules(local)
      [] OTHER -> ZoneRules(loc.name)

\* Location.lookup: the zone in effect at the instant sec, and the span
\* [start, end) of instants over which it is in effect.  The transitions are
\* in order, so the one in effect is found by counting those not after sec.
lookupAt(r, i) ==
    [off |-> IF i = 0 THEN r.base.off ELSE r.trans[i].zone.off,
     abbr |-> IF i = 0 THEN r.base.abbr ELSE r.trans[i].zone.abbr,
     hasStart |-> i > 0,
     start |-> IF i > 0 THEN r.trans[i].at ELSE 0,
     hasEnd |-> i < Len(r.trans),
     end |-> IF i < Len(r.trans) THEN r.trans[i + 1].at ELSE 0]

lookupIn(r, sec) ==
    lookupAt(r, Cardinality({j \in 1..Len(r.trans) : r.trans[j].at <= sec}))

Lookup(loc, sec) == lookupIn(RulesOf(loc), sec)

(***************************************************************************)
(* time.Time.                                                              *)
(***************************************************************************)
MkTime(sec, nsec, loc) ==
    [day |-> sec \div SecondsPerDay, sod |-> sec % SecondsPerDay,
     nsec |-> nsec, loc |-> loc]

\* Time.Unix, Time.UnixMilli, Time.UnixMicro, Time.UnixNano
UnixOf(t) == t.day * SecondsPerDay + t.sod
UnixMilliOf(t) == UnixOf(t) * MilliPerSec + t.nsec \div NanoPerMilli
UnixMicroOf(t) == UnixOf(t) * MicroPerSec + t.nsec \div NanoPerMicro
UnixNanoOf(t) == UnixOf(t) * NanoPerSec + t.nsec

\* time.Unix(sec, nsec): nsec outside [0, 1 s) is carried into sec; the
\* result is in the Local zone.
TimeUnix(sec, nsec) ==
    LET n == Quot(nsec, NanoPerSec)
        r1 == nsec - n * NanoPerSec
    IN IF r1 < 0 THEN MkTime(sec + n - 1, r1 + NanoPerSec, LocalLoc)
       ELSE MkTime(sec + n, r1, LocalLoc)

\* time.UnixMilli, time.UnixMicro
TimeUnixMilli(msec) ==
    TimeUnix(Quot(msec, MilliPerSec), Rem(msec, MilliPerSec) * NanoPerMilli)
TimeUnixMicro(usec) ==
    TimeUnix(Quot(usec, MicroPerSec), Rem(usec, MicroPerSec) * NanoPerMicro)

\* Time.In, Time.Zone
In(t, loc) == [t EXCEPT !.loc = loc]
ZoneOf(t) == Lookup(t.loc, UnixOf(t))

\* The wall clock of t in its zone, as the count of seconds that its
\* year, month, day, hour, minute and second spell on the civil calendar.
WallOf(t) == UnixOf(t) + ZoneOf(t).off

\* time.Date(fields..., loc): the instant at which the wall clock of loc
\* reads the given fields.  The offset z is guessed at the wall value read
\* as an instant, and looked up again when the guess falls outside its span.
dateWith(z, wall, nsec, loc) ==
    IF z.off = 0 THEN MkTime(wall, nsec, loc)
    ELSE IF \/ z.hasStart /\ wall - z.off < z.start
            \/ z.hasEnd /\ wall - z.off >= z.end
         THEN MkTime(wall - Lookup(loc, wall - z.off).off, nsec, loc)
         ELSE MkTime(wall - z.off, nsec, loc)

Date(wall, nsec, loc) == dateWith(Lookup(loc, wall), wall, nsec, loc)

(***************************************************************************)
(* The civil calendar, for Time.AddDate.                                   *)
(***************************************************************************)
\* Days from 1970-01-01 to the first of month m (1..12) of year y, plus d - 1.
DaysFromCivil(y, m, d) ==
    LET yy == IF m <= 2 THEN y - 1 ELSE y
        era == yy \div 400
        yoe == yy - era * 400
        mp == IF m > 2 THEN m - 3 ELSE m + 9
        doy == (153 * mp + 2) \div 5 + d - 1
        doe == yoe * 365 + yoe \div 4 - yoe \div 100 + doy
    IN era * 146097 + doe - 719468

\* The year, month and day of the day `days` days after 1970-01-01.
civilOf(era, yoe, doy, mp) ==
    [y |-> yoe + era * 400 + (IF mp < 10 THEN 0 ELSE 1),
     m |-> IF mp < 10 THEN mp + 3 ELSE mp - 9,
     d |-> doy - (153 * mp + 2) \div 5 + 1]
civilOfDoy(era, yoe, doy) == civilOf(era, yoe, doy, (5 * doy + 2) \div 153)
civilOfYoe(era, doe, yoe) ==
    civilOfDoy(era, yoe, doe - (365 * yoe + yoe \div 4 - yoe \div 100))
civilOfDoe(era, doe) ==
    civilOfYoe(era, doe,
               (doe - doe \div 1460 + doe \div 36524 - doe \div 146096) \div 365)
civilOfEra(z, era) == civilOfDoe(era, z - era * 146097)
CivilFromDays(days) == civilOfEra(days + 719468, (days + 719468) \div 146097)

\* Time.AddDate(0, months, days): the fields of t with the month and the day
\* advanced, normalised by Date in t's own zone.
addMonths(c, wall, t, months, days) ==
    Date((DaysFromCivil(c.y + ((c.m - 1 + months) \div 12),
                        ((c.m - 1 + months) % 12) + 1, 1)
          + c.d - 1 + days) * SecondsPerDay + (wall % SecondsPerDay),
         t.nsec, t.loc)

addDateWall(wall, t, months, days) ==
    IF months = 0 THEN Date(wall + days * SecondsPerDay, t.nsec, t.loc)
    ELSE addMonths(CivilFromDays(wall \div SecondsPerDay), wall, t, months, days)

AddDate(t, months, days) == addDateWall(WallOf(t), t, months, days)

(***************************************************************************)
(* Text.  A decimal integer, an RFC 3339 timestamp (wall clock, fraction   *)
(* of a second, and either the Z designator or a numeric offset in         *)
(* minutes), a "2006-01-02 15:04:05" timestamp (wall clock only), or any   *)
(* other text.                                                             *)
(***************************************************************************)
DecText(n) == [k |-> "dec", n |-> n]
RfcText(wall, frac, z, off) ==
    [k |-> "rfc3339", wall |-> wall, frac |-> frac, z |-> z, off |-> off]
DateTimeText(wall) == [k |-> "datetime", wall |-> wall]
LitText(s) == [k |-> "lit", txt |-> s]

\* strconv.FormatInt(n, 10) and strconv.ParseInt(s, 10, 64)
FormatInt(n) == DecText(n)
ParseInt(s) == IF s.k = "dec" THEN [ok |-> TRUE, n |-> s.n] ELSE [ok |-> FALSE, n |-> 0]

\* The layouts time.RFC3339 and time.RFC3339Nano.
RFC3339 == "2006-01-02T15:04:05Z07:00"
RFC3339Nano == "2006-01-02T15:04:05.999999999Z07:00"

\* Time.Format(layout).  "Z07:00" writes Z at offset zero and otherwise the
\* offset in whole minutes; ".999999999" writes the fraction; a layout with
\* no element of the reference time is written out as it stands.
formatAt(off, t, layout) ==
    CASE layout = RFC3339 ->
           RfcText(UnixOf(t) + off, 0, off = 0, Quot(off, SecondsPerMinute))
      [] layout = RFC3339Nano ->
           RfcText(UnixOf(t) + off, t.nsec, off = 0, Quot(off, SecondsPerMinute))
      [] layout = DateTimeLayout -> DateTimeText(UnixOf(t) + off)
      [] OTHER -> LitText(layout)

TimeFormat(t, layout) == formatAt(ZoneOf(t).off, t, layout)

\* What time.Parse gives when the layout names no field: January 1 of the
\* year 0, 00:00:00 UTC.
ZeroFieldsTime == [day |-> DaysFromCivil(0, 1, 1), sod |-> 0, nsec |-> 0, loc |-> UTC]

\* time.Parse(layout, s).  A fraction of a second after the seconds is read
\* whether or not the layout has one.  Z gives UTC; a numeric offset gives
\* Local when Local has that offset at the instant, else an unnamed fixed
\* zone; fields without a zone are read as UTC.
TimeParse(layout, s) ==
    CASE layout \in {RFC3339, RFC3339Nano} ->
           IF s.k # "rfc3339" THEN [ok |-> FALSE, t |-> ZeroFieldsTime]
           ELSE IF s.z THEN [ok |-> TRUE, t |-> MkTime(s.wall, s.frac, UTC)]
           ELSE LET offset == s.off * SecondsPerMinute
                    sec == s.wall - offset
                    loc == IF Lookup(LocalLoc, sec).off = offset
                           THEN LocalLoc ELSE FixedZone("", offset)
                IN [ok |-> TRUE, t |-> MkTime(sec, s.frac, loc)]
      [] layout = DateTimeLayout ->
           IF s.k # "datetime" THEN [ok |-> FALSE, t |-> ZeroFieldsTime]
           ELSE [ok |-> TRUE, t |-> MkTime(s.wall, 0, UTC)]
      [] OTHER ->
           IF s.k = "lit" /\ s.txt = layout THEN [ok |-> TRUE, t |-> ZeroFieldsTime]
           ELSE [ok |-> FALSE, t |-> ZeroFieldsTime]

orDefault(name, default) == IF name = "" THEN default ELSE name

(***************************************************************************)
(* Errors: the message each fmt.Errorf begins with, and the name it        *)
(* carries.                                                                *)
(***************************************************************************)
Failure(msg, arg) == [ok |-> FALSE, err |-> msg, arg |-> arg]

ErrInvalidTimezone == "invalid timezone"
ErrInvalidDestination == "invalid destination timezone"
ErrInvalidSource == "invalid source timezone"
ErrUnsupportedFormat == "unsupported format"
ErrParseTimestamp == "failed to parse timestamp string"
ErrParseTimeString == "failed to parse time string"
ErrUnsupportedType == "unsupported timestamp type"

(***************************************************************************)
(* The service's helpers.                                                  *)
(***************************************************************************)
supportedFormats == heap[svc.supportedFormats]

\* IsFormatSupported were it to be the check against the named identifiers.
IsFormatSupportedValid(format) == IsValidFormat(format)

IsFormatSupported(format) ==
    \E i \in 1..Len(supportedFormats) : supportedFormats[i] = format

\* formatTimeInternal, lines 170-212
formatSupported(t, format) ==
    CASE format = FormatRFC3339 -> TimeFormat(t, RFC3339)
      [] format = FormatRFC3339Nano -> TimeFormat(t, RFC3339Nano)
      [] format = FormatUnix -> FormatInt(UnixOf(t))
      [] format = FormatUnixMilli -> FormatInt(UnixMilliOf(t))
      [] format = FormatUnixMicro -> FormatInt(UnixMicroOf(t))
      [] format = FormatUnixNano -> FormatInt(UnixNanoOf(t))
      [] format = FormatLayout -> TimeFormat(t, format)
      [] OTHER -> TimeFormat(t, format)

\* formatTimeInternal were it to gate on IsValidFormat as well.
formatCheckedValid(t, format) ==
    IF ~(IsFormatSupported(format) \/ IsValidFormat(format))
    THEN Failure(ErrUnsupportedFormat, format)
    ELSE [ok |-> TRUE, text |-> formatSupported(t, format)]

formatChecked(t, format) ==
    IF ~IsFormatSupported(format) THEN Failure(ErrUnsupportedFormat, format)
    ELSE [ok |-> TRUE, text |-> formatSupported(t, format)]

\* formatTimeInternal without the default for the empty format.
formatTimeInternalAsGiven(t, format) == formatChecked(t, format)

formatTimeInternal(t, format) == formatChecked(t, orDefault(format, svc.defaultFormat))

\* parseTimeInternal, lines 253-313
parseInt(n, t) == [ok |-> n.ok, t |-> t]

\* The switch were it to parse with the named identifiers only.
parseWithNamed(timeStr, format, n) ==
    CASE format = FormatRFC3339 -> TimeParse(RFC3339, timeStr)
      [] format = FormatRFC3339Nano -> TimeParse(RFC3339Nano, timeStr)
      [] format = FormatUnix -> parseInt(n, TimeUnix(n.n, 0))
      [] format = FormatUnixMilli -> parseInt(n, TimeUnixMilli(n.n))
      [] format = FormatUnixMicro -> parseInt(n, TimeUnixMicro(n.n))
      [] format = FormatUnixNano -> parseInt(n, TimeUnix(0, n.n))
      [] OTHER -> [ok |-> FALSE, t |-> ZeroFieldsTime]

parseWith(timeStr, format, n) ==
    CASE format = FormatRFC3339 -> TimeParse(RFC3339, timeStr)
      [] format = FormatRFC3339Nano -> TimeParse(RFC3339Nano, timeStr)
      [] format = FormatUnix -> parseInt(n, TimeUnix(n.n, 0))
      [] format = FormatUnixMilli -> parseInt(n, TimeUnixMilli(n.n))
      [] format = FormatUnixMicro -> parseInt(n, TimeUnixMicro(n.n))
      [] format = FormatUnixNano -> parseInt(n, TimeUnix(0, n.n))
      [] OTHER -> TimeParse(format, timeStr)

parseDone(r, format) ==
    IF r.ok THEN [ok |-> TRUE, t |-> r.t] ELSE Failure(ErrParseTimeString, format)

\* parseTimeInternal were it to have the gate of formatTimeInternal.
parseTimeInternalGated(timeStr, format) ==
    IF ~IsFormatSupported(orDefault(format, svc.defaultFormat))
    THEN Failure(ErrUnsupportedFormat, orDefault(format, svc.defaultFormat))
    ELSE parseDone(parseWith(timeStr, orDefault(format, svc.defaultFormat),
                             ParseInt(timeStr)),
                   orDefault(format, svc.defaultFormat))

parseTimeInternal(timeStr, format) ==
    parseDone(parseWith(timeStr, orDefault(format, svc.defaultFormat), ParseInt(timeStr)),
              orDefault(format, svc.defaultFormat))

\* isDST were it to compare the other way round.
isDSTReversed(t, loc) == ZoneOf(t).off < ZoneOf(In(AddDate(t, 6, 0), loc)).off

\* isDST were it to compare with >=.
isDSTOrEqual(t, loc) == ZoneOf(t).off >= ZoneOf(In(AddDate(t, 6, 0), loc)).off

isDST(t, loc) == ZoneOf(t).off > ZoneOf(In(AddDate(t, 6, 0), loc)).off

NoTransition == [found |-> FALSE]

\* One pass of the loop of getNextDSTTransition: the transition found at the
\* day after current, or none and the day to go on from.
\* The pass were it to name the kinds the other way round.
stepWithSwapped(next, nextInZone, nextOffset, currentOffset) ==
    IF nextOffset # currentOffset
    THEN [found |-> TRUE,
          NextTransition |-> nextInZone,
          TransitionType |-> IF nextOffset < currentOffset
                             THEN "enter_dst" ELSE "exit_dst",
          OffsetChange |-> nextOffset - currentOffset]
    ELSE [found |-> FALSE, current |-> next]

stepWith(next, nextInZone, nextOffset, currentOffset) ==
    IF nextOffset # currentOffset
    THEN [found |-> TRUE,
          NextTransition |-> nextInZone,
          TransitionType |-> IF nextOffset < currentOffset
                             THEN "exit_dst" ELSE "enter_dst",
          OffsetChange |-> nextOffset - currentOffset]
    ELSE [found |-> FALSE, current |-> next]

stepTo(next, loc, currentOffset) ==
    stepWith(next, In(next, loc), ZoneOf(In(next, loc)).off, currentOffset)

transitionStep(current, currentOffset, loc) ==
    stepTo(AddDate(current, 0, 1), loc, currentOffset)

\* The passes i, i + 1, ... below limit, from current.
RECURSIVE transitionRun(_, _, _, _, _)
runOn(r, currentOffset, loc, i, limit) ==
    IF r.found THEN r
    ELSE transitionRun(r.current, currentOffset, loc, i + 1, limit)

transitionRun(current, currentOffset, loc, i, limit) ==
    IF i >= limit THEN [found |-> FALSE, current |-> current]
    ELSE runOn(transitionStep(current, currentOffset, loc), currentOffset, loc, i, limit)

\* The loop "for i := 0; i < 365; i++", run a fortnight of passes at a time.
RECURSIVE transitionSearch(_, _, _, _)
searchOn(r, currentOffset, loc, limit) ==
    IF r.found THEN r
    ELSE transitionSearch(r.current, currentOffset, loc, limit)

\* The search were it to report the last day looked at when it finds nothing.
transitionSearchLast(current, currentOffset, loc, i) ==
    IF i >= 365
    THEN [found |-> TRUE, NextTransition |-> current,
          TransitionType |-> "exit_dst", OffsetChange |-> 0]
    ELSE searchOn(transitionRun(current, currentOffset, loc, i,
                                IF i + 14 < 365 THEN i + 14 ELSE 365),
                  currentOffset, loc, IF i + 14 < 365 THEN i + 14 ELSE 365)

transitionSearch(current, currentOffset, loc, i) ==
    IF i >= 365 THEN NoTransition
    ELSE searchOn(transitionRun(current, currentOffset, loc, i,
                                IF i + 14 < 365 THEN i + 14 ELSE 365),
                  currentOffset, loc, IF i + 14 < 365 THEN i + 14 ELSE 365)

getNextDSTTransition(t, loc) == transitionSearch(t, ZoneOf(t).off, loc, 0)

\* fmt's %02d: the decimal digits of n, padded to two.
RECURSIVE DigitsOf(_)
DigitsOf(n) == IF n < 10 THEN <<n>> ELSE Append(DigitsOf(n \div 10), n % 10)
Digits2(n) == IF n < 10 THEN <<0, n>> ELSE DigitsOf(n)

\* formatOffset were it to take the minutes as the remainder of a division by 60.
formatOffsetRemainder(offsetSeconds) ==
    IF offsetSeconds = 0 THEN [sign |-> "+", hh |-> <<0, 0>>, mm |-> <<0, 0>>]
    ELSE LET sign == IF offsetSeconds < 0 THEN "-" ELSE "+"
             a == IF offsetSeconds < 0 THEN -offsetSeconds ELSE offsetSeconds
             hours == a \div SecondsPerHour
             minutes == a % SecondsPerMinute
         IN [sign |-> sign, hh |-> Digits2(hours), mm |-> Digits2(minutes)]

formatOffset(offsetSeconds) ==
    IF offsetSeconds = 0 THEN [sign |-> "+", hh |-> <<0, 0>>, mm |-> <<0, 0>>]
    ELSE LET sign == IF offsetSeconds < 0 THEN "-" ELSE "+"
             a == IF offsetSeconds < 0 THEN -offsetSeconds ELSE offsetSeconds
             hours == a \div SecondsPerHour
             minutes == (a % SecondsPerHour) \div SecondsPerMinute
         IN [sign |-> sign, hh |-> Digits2(hours), mm |-> Digits2(minutes)]


(***************************************************************************)
(* The operations, as functions of the request (and of the clock reading   *)
(* now, a time in the Local zone, where the code calls time.Now).          *)
(***************************************************************************)
\* getCurrentTimeInternal, lines 86-109
currentIn(l, timezone, now) ==
    IF ~l.ok THEN Failure(ErrInvalidTimezone, timezone)
    ELSE [ok |-> TRUE, t |-> In(now, l.loc)]

getCurrentTimeInternal(timezone0, now) ==
    currentIn(LoadLocation(orDefault(timezone0, svc.defaultTimezone)),
              orDefault(timezone0, svc.defaultTimezone), now)

\* GetCurrentTime, lines 56-83
currentFormatted(f, currentTime, timezone, format) ==
    IF ~f.ok THEN f
    ELSE [ok |-> TRUE,
          FormattedTime |-> f.text,
          Timezone |-> timezone,
          Format |-> format,
          UnixTimestamp |-> UnixOf(currentTime)]

currentGot(cur, timezone, format) ==
    IF ~cur.ok THEN cur
    ELSE currentFormatted(formatTimeInternal(cur.t, format), cur.t, timezone, format)

GetCurrentTimeResult(input, now) ==
    currentGot(getCurrentTimeInternal(orDefault(input.Timezone, svc.defaultTimezone), now),
               orDefault(input.Timezone, svc.defaultTimezone),
               orDefault(input.Format, svc.defaultFormat))

\* The type switch of FormatTime on input.Timestamp, lines 124-145.  A
\* float64 is given in halves, and int64(v) drops the fraction.
\* The string case were the decimal reading taken as milliseconds.
stringTimestampMilli(u, r) ==
    IF u.ok THEN [ok |-> TRUE, t |-> TimeUnixMilli(u.n)]
    ELSE IF r.ok THEN [ok |-> TRUE, t |-> r.t]
    ELSE Failure(ErrParseTimestamp, "")

stringTimestamp(u, r) ==
    IF u.ok THEN [ok |-> TRUE, t |-> TimeUnix(u.n, 0)]
    ELSE IF r.ok THEN [ok |-> TRUE, t |-> r.t]
    ELSE Failure(ErrParseTimestamp, "")

timestampOf(ts) ==
    CASE ts.type = "string" -> stringTimestamp(ParseInt(ts.s), TimeParse(RFC3339, ts.s))
      [] ts.type \in {"int", "int64"} -> [ok |-> TRUE, t |-> TimeUnix(ts.n, 0)]
      [] ts.type = "float64" -> [ok |-> TRUE, t |-> TimeUnix(Quot(ts.halves, 2), 0)]
      [] ts.type = "time" -> [ok |-> TRUE, t |-> ts.t]
      [] OTHER -> Failure(ErrUnsupportedType, ts.type)

\* FormatTime, lines 112-167
formatFormatted(f, t, format) ==
    IF ~f.ok THEN f
    ELSE [ok |-> TRUE,
          FormattedTime |-> f.text,
          Timezone |-> t.loc.name,
          Format |-> format,
          UnixTimestamp |-> UnixOf(t)]

formatZoned(t, format) == formatFormatted(formatTimeInternal(t, format), t, format)

formatParsed(parsed, timezone, l, format) ==
    IF ~parsed.ok THEN parsed
    ELSE IF timezone # "" /\ ~l.ok THEN Failure(ErrInvalidTimezone, timezone)
    ELSE formatZoned(IF timezone # "" THEN In(parsed.t, l.loc) ELSE parsed.t, format)

FormatTimeResult(input) ==
    formatParsed(timestampOf(input.Timestamp),
                 orDefault(input.Timezone, svc.defaultTimezone),
                 LoadLocation(orDefault(input.Timezone, svc.defaultTimezone)),
                 input.Format)

\* applyTimezone were it to read the fields in loc whatever the zone of the
\* parsed time.
applyTimezoneDate(parsedTime, loc) == Date(WallOf(parsedTime), parsedTime.nsec, loc)

\* applyTimezone were it to convert whatever the zone of the parsed time.
applyTimezoneIn(parsedTime, loc) == In(parsedTime, loc)

\* ParseTime, lines 215-250.  applyTimezone is lines 236-241.
applyTimezone(parsedTime, loc) ==
    IF parsedTime.loc = UTC
    THEN Date(WallOf(parsedTime), parsedTime.nsec, loc)
    ELSE In(parsedTime, loc)

parseZoned(parsedTime) ==
    [ok |-> TRUE,
     UnixTimestamp |-> UnixOf(parsedTime),
     RFC3339 |-> TimeFormat(parsedTime, RFC3339),
     Timezone |-> parsedTime.loc.name,
     IsDST |-> isDST(parsedTime, parsedTime.loc)]

parseParsed(p, timezone, l) ==
    IF ~p.ok THEN p
    ELSE IF timezone # "" /\ ~l.ok THEN Failure(ErrInvalidTimezone, timezone)
    ELSE parseZoned(IF timezone # "" THEN applyTimezone(p.t, l.loc) ELSE p.t)

ParseTimeResult(input) ==
    parseParsed(parseTimeInternal(input.TimeString,
                                  orDefault(input.Format, svc.defaultFormat)),
                input.Timezone, LoadLocation(input.Timezone))

\* getTimezoneInfoInternal, lines 338-388
infoAt(z, timeInZone, timezone, loc) ==
    [ok |-> TRUE,
     Name |-> timezone,
     Abbreviation |-> z.abbr,
     Offset |-> formatOffset(z.off),
     OffsetSeconds |-> z.off,
     IsDST |-> isDST(timeInZone, loc),
     DSTTransition |-> getNextDSTTransition(timeInZone, loc)]

\* getTimezoneInfoInternal were it to take the zone of refTime as it is given.
infoInGiven(l, timezone, refTime) ==
    IF ~l.ok THEN Failure(ErrInvalidTimezone, timezone)
    ELSE infoAt(ZoneOf(refTime), In(refTime, l.loc), timezone, l.loc)

infoIn(l, timezone, refTime) ==
    IF ~l.ok THEN Failure(ErrInvalidTimezone, timezone)
    ELSE infoAt(ZoneOf(In(refTime, l.loc)), In(refTime, l.loc), timezone, l.loc)

getTimezoneInfoInternal(timezone0, refTime) ==
    infoIn(LoadLocation(orDefault(timezone0, svc.defaultTimezone)),
           orDefault(timezone0, svc.defaultTimezone), refTime)

\* GetTimezoneInfo, lines 316-335.  input.ReferenceTime is [zero |-> TRUE]
\* for the zero time.Time.
GetTimezoneInfoResult(input, now) ==
    getTimezoneInfoInternal(orDefault(input.Timezone, svc.defaultTimezone),
                            IF input.ReferenceTime.zero THEN now
                            ELSE input.ReferenceTime.t)

\* ConvertTimezone, lines 391-427
convertFrom(fromLoc, t, fromTZ, toLoc) ==
    IF ~fromLoc.ok THEN Failure(ErrInvalidSource, fromTZ)
    ELSE [ok |-> TRUE, t |-> In(Date(WallOf(t), t.nsec, fromLoc.loc), toLoc)]

\* ConvertTimezone were it to reinterpret whatever the zone of t.
convertToReading(toLoc, t, fromTZ, toTZ) ==
    IF ~toLoc.ok THEN Failure(ErrInvalidDestination, toTZ)
    ELSE IF fromTZ # ""
         THEN convertFrom(LoadLocation(fromTZ), t, fromTZ, toLoc.loc)
         ELSE [ok |-> TRUE, t |-> In(t, toLoc.loc)]

\* ConvertTimezone were it to resolve the source zone first.
convertToSourceFirst(toLoc, t, fromTZ, toTZ) ==
    IF fromTZ # "" /\ ~LoadLocation(fromTZ).ok THEN Failure(ErrInvalidSource, fromTZ)
    ELSE IF ~toLoc.ok THEN Failure(ErrInvalidDestination, toTZ)
    ELSE IF fromTZ # "" /\ t.loc = UTC
         THEN convertFrom(LoadLocation(fromTZ), t, fromTZ, toLoc.loc)
         ELSE [ok |-> TRUE, t |-> In(t, toLoc.loc)]

convertTo(toLoc, t, fromTZ, toTZ) ==
    IF ~toLoc.ok THEN Failure(ErrInvalidDestination, toTZ)
    ELSE IF fromTZ # "" /\ t.loc = UTC
         THEN convertFrom(LoadLocation(fromTZ), t, fromTZ, toLoc.loc)
         ELSE [ok |-> TRUE, t |-> In(t, toLoc.loc)]

ConvertTimezoneResult(t, fromTZ, toTZ) == convertTo(LoadLocation(toTZ), t, fromTZ, toTZ)

(***************************************************************************)
(* The requests the model makes.                                           *)
(***************************************************************************)
\* The instant New York's clocks go from 02:00 EST to 03:00 EDT in 1970, and
\* the wall clock reading 02:00 of that day, which no New York instant has.
SpringForward == NewYorkRules.trans[3].at
GapStart == SpringForward + EST.off

SampleSecs ==
    {b + k * HalfHour : b \in {0, GapStart, SpringForward}, k \in -MaxStep..MaxStep}
NsecSamples == {0, NanoPerMilli + NanoPerMicro + 1}
LocSamples == {UTC, NamedLoc("Etc/UTC"), NamedLoc("America/New_York")}

TimeSamples ==
    {MkTime(sec, nsec, loc) : sec \in SampleSecs, nsec \in NsecSamples, loc \in LocSamples}
NowSamples == {MkTime(sec, nsec, LocalLoc) : sec \in SampleSecs, nsec \in NsecSamples}

InvalidTimezone == "Invalid/Timezone"
ZoneNames == {"", "UTC", "America/New_York", "Asia/Tokyo", InvalidTimezone}

FormatSamples == NamedFormats \cup {"", DateTimeLayout, "UnsupportedFormat"}

\* Offsets written in the RFC 3339 samples, in minutes: -05:00 and +00:00.
OffsetSamples == {Quot(EST.off, SecondsPerMinute), 0}

TextSamples ==
    {DecText(n) : n \in SampleSecs}
    \cup {RfcText(w, 0, TRUE, 0) : w \in SampleSecs}
    \cup {RfcText(SpringForward, f, TRUE, 0) : f \in NsecSamples}
    \cup {RfcText(w, 0, FALSE, m) : w \in {GapStart, SpringForward}, m \in OffsetSamples}
    \cup {DateTimeText(w) : w \in SampleSecs}
    \cup {LitText("invalid-time")}

\* FormatTime sets the zone of every timestamp, so its time.Time samples are
\* the UTC ones and its strings one of each kind.
TimestampSamples ==
    {[type |-> "string", s |-> x] :
        x \in {DecText(0), DecText(SpringForward),
               RfcText(SpringForward, 0, TRUE, 0),
               RfcText(GapStart, 0, FALSE, Quot(EST.off, SecondsPerMinute)),
               DateTimeText(SpringForward), LitText("invalid-time")}}
    \cup {[type |-> "time", t |-> x] : x \in {y \in TimeSamples : y.loc = UTC}}
    \cup {[type |-> y, n |-> SpringForward] : y \in {"int", "int64"}}
    \cup {[type |-> "float64", halves |-> x] : x \in {-3, 2 * SpringForward + 1}}
    \cup {[type |-> "bool"]}

(***************************************************************************)
(* internal/metrics.  A CounterVec or HistogramVec is a function from the  *)
(* label values it has children for to the child: a counter's value, or a  *)
(* histogram's count and sum, durations being in milliseconds.             *)
(***************************************************************************)
\* New: four metrics, none with a child yet.
New ==
    [ToolRequestDuration |-> [lvs \in {} |-> 0],
     TimeOperationDuration |-> [lvs \in {} |-> 0],
     TransportRequestsTotal |-> [lvs \in {} |-> 0],
     ErrorsTotal |-> [lvs \in {} |-> 0]]

\* vec.WithLabelValues(lvs...).Inc(): the child is created, at zero, when
\* there is none.
Inc(vec, lvs) ==
    [l \in DOMAIN vec \cup {lvs} |->
        IF l # lvs THEN vec[l]
        ELSE IF lvs \in DOMAIN vec THEN vec[lvs] + 1 ELSE 1]

\* vec.WithLabelValues(lvs...).Observe(duration)
Observe(vec, lvs, duration) ==
    [l \in DOMAIN vec \cup {lvs} |->
        IF l # lvs THEN vec[l]
        ELSE IF lvs \in DOMAIN vec
             THEN [count |-> vec[lvs].count + 1, sum |-> vec[lvs].sum + duration]
             ELSE [count |-> 1, sum |-> duration]]

(***************************************************************************)
(* Construction.  NewTimeService stores the slice it is given; the tests   *)
(* and the configuration defaults give the lists.                          *)
(***************************************************************************)
SupportedChoices ==
    { <<FormatRFC3339>>,
      <<FormatRFC3339, FormatUnix, FormatUnixMilli, DateTimeLayout>>,
      <<FormatRFC3339, FormatRFC3339Nano, FormatUnix, FormatUnixMilli,
        FormatUnixMicro, FormatUnixNano, FormatLayout>> }
DefaultFormatChoices == {FormatRFC3339, FormatUnix}
DefaultTimezoneChoices == {"UTC", "America/New_York"}
LocalChoices == {"Etc/UTC", "America/New_York"}

Arrays == 1..(1 + MaxCopies)

NewTimeService(defaultTimezone, defaultFormat, slice) ==
    [defaultTimezone |-> defaultTimezone,
     defaultFormat |-> defaultFormat,
     supportedFormats |-> slice]

Init ==
    /\ \E list \in SupportedChoices :
          /\ heap = [a \in Arrays |-> IF a = 1 THEN list ELSE << >>]
          /\ atNew = list
    /\ passed = 1
    /\ \E tz \in DefaultTimezoneChoices, f \in DefaultFormatChoices :
          svc = NewTimeService(tz, f, passed)
    /\ held = << >>
    /\ local \in LocalChoices
    /\ metrics = New
    /\ recorded = << >>
    /\ call = NoCall

(***************************************************************************)
(* One action per operation: the call is made with its request and its     *)
(* result returned at once; Return is the caller going on.                 *)
(***************************************************************************)
Returns(op, input, out) ==
    /\ call' = [op |-> op, in |-> input, out |-> out]
    /\ UNCHANGED <<heap, svc, passed, held, atNew, local, metrics, recorded>>

GetCurrentTime ==
    /\ call = NoCall
    /\ \E tz \in ZoneNames, f \in FormatSamples, now \in NowSamples :
          LET input == [Timezone |-> tz, Format |-> f]
          IN Returns("GetCurrentTime", [req |-> input, now |-> now],
                     GetCurrentTimeResult(input, now))

FormatTime ==
    /\ call = NoCall
    /\ \E ts \in TimestampSamples, f \in FormatSamples, tz \in ZoneNames :
          LET input == [Timestamp |-> ts, Format |-> f, Timezone |-> tz]
          IN Returns("FormatTime", input, FormatTimeResult(input))

ParseTime ==
    /\ call = NoCall
    /\ \E s \in TextSamples, f \in FormatSamples, tz \in ZoneNames :
          LET input == [TimeString |-> s, Format |-> f, Timezone |-> tz]
          IN Returns("ParseTime", input, ParseTimeResult(input))

\* time.Now is read on every call and used when no reference time is given.
\* Europe/Berlin is asked about at noon UTC of 1 March, 1 May and 1 June 1947.
GetTimezoneInfo ==
    /\ call = NoCall
    /\ \E tz \in ZoneNames \cup {"Europe/Berlin"} :
       \E ref \in IF tz = "Europe/Berlin"
                  THEN {[zero |-> FALSE, t |-> MkTime(sec, 0, UTC)] :
                           sec \in {-720705600, -715435200, -712756800}}
                  ELSE {[zero |-> TRUE]}
                       \cup {[zero |-> FALSE, t |-> MkTime(sec, 0, UTC)] :
                                 sec \in SampleSecs} :
          \E now \in IF ref.zero THEN {MkTime(sec, 0, LocalLoc) : sec \in SampleSecs}
                     ELSE {MkTime(0, 0, LocalLoc)} :
             LET input == [Timezone |-> tz, ReferenceTime |-> ref]
             IN Returns("GetTimezoneInfo", [req |-> input, now |-> now],
                        GetTimezoneInfoResult(input, now))

ConvertTimezone ==
    /\ call = NoCall
    /\ \E t \in TimeSamples, fromTZ \in ZoneNames, toTZ \in ZoneNames :
          Returns("ConvertTimezone", [t |-> t, fromTZ |-> fromTZ, toTZ |-> toTZ],
                  ConvertTimezoneResult(t, fromTZ, toTZ))

IsFormatSupportedCall ==
    /\ call = NoCall
    /\ \E f \in FormatSamples :
          Returns("IsFormatSupported", f, IsFormatSupported(f))

Return ==
    /\ call # NoCall
    /\ call' = NoCall
    /\ UNCHANGED <<heap, svc, passed, held, atNew, local, metrics, recorded>>

Next ==
    \/ GetCurrentTime
    \/ FormatTime
    \/ ParseTime
    \/ GetTimezoneInfo
    \/ ConvertTimezone
    \/ IsFormatSupportedCall
    \/ Return

Spec == Init /\ [][Next]_vars


(***************************************************************************)
(* The configuration and the slices.  The caller keeps the slice it passed *)
(* to NewTimeService (TimeConfig.SupportedFormats) and the slices that     *)
(* GetSupportedFormats and GetValidFormats return, and may write to their  *)
(* elements.                                                               *)
(***************************************************************************)
SliceChoices ==
    { <<FormatRFC3339, FormatUnix>>, <<FormatRFC3339, FormatUnix, FormatUnixMilli>> }
WriteSamples == {"Modified"}

InitConfig ==
    /\ \E list \in SliceChoices :
          /\ heap = [a \in Arrays |-> IF a = 1 THEN list ELSE << >>]
          /\ atNew = list
    /\ passed = 1
    /\ \E tz \in DefaultTimezoneChoices, f \in DefaultFormatChoices :
          svc = NewTimeService(tz, f, passed)
    /\ held = << >>
    /\ local \in LocalChoices
    /\ metrics = New
    /\ recorded = << >>
    /\ call = NoCall

\* make([]string, len(src)); copy(formats, src); return formats
returnCopy(op, src) ==
    /\ call = NoCall
    /\ Len(held) < MaxCopies
    /\ heap' = [heap EXCEPT ![2 + Len(held)] = heap[src]]
    /\ held' = Append(held, 2 + Len(held))
    /\ call' = [op |-> op, in |-> src, out |-> 2 + Len(held)]
    /\ UNCHANGED <<svc, passed, atNew, local, metrics, recorded>>

\* GetSupportedFormats were it to return s.supportedFormats itself.
GetSupportedFormatsAlias ==
    /\ call = NoCall
    /\ Len(held) < MaxCopies
    /\ held' = Append(held, svc.supportedFormats)
    /\ call' = [op |-> "GetSupportedFormats", in |-> svc.supportedFormats,
                out |-> svc.supportedFormats]
    /\ UNCHANGED <<heap, svc, passed, atNew, local, metrics, recorded>>

GetSupportedFormats == returnCopy("GetSupportedFormats", svc.supportedFormats)

GetValidFormats == returnCopy("GetValidFormats", passed)

\* The caller assigns to an element of the slice it passed.
WritePassed ==
    /\ call = NoCall
    /\ \E i \in 1..Len(heap[passed]), v \in WriteSamples :
          /\ heap[passed][i] # v
          /\ heap' = [heap EXCEPT ![passed][i] = v]
    /\ UNCHANGED <<svc, passed, held, atNew, local, metrics, recorded, call>>

\* The caller assigns to an element of a slice it was returned.
WriteReturned ==
    /\ call = NoCall
    /\ \E k \in 1..Len(held) :
          \E i \in 1..Len(heap[held[k]]), v \in WriteSamples :
             /\ heap[held[k]][i] # v
             /\ heap' = [heap EXCEPT ![held[k]][i] = v]
    /\ UNCHANGED <<svc, passed, held, atNew, local, metrics, recorded, call>>

NextConfig ==
    \/ GetSupportedFormats
    \/ GetValidFormats
    \/ WritePassed
    \/ WriteReturned
    \/ IsFormatSupportedCall
    \/ Return

SpecConfig == InitConfig /\ [][NextConfig]_vars

(***************************************************************************)
(* Properties of the operations.                                           *)
(***************************************************************************)
\* The names time.LoadLocation resolves.
ResolvableNames == {"", "UTC", "Local"} \cup DatabaseZones

\* The format a request names, and whether the configured list holds it.
listed(format) == \E i \in 1..Len(supportedFormats) : supportedFormats[i] = format

rejected(out, format) ==
    /\ ~out.ok
    /\ out.err = ErrUnsupportedFormat
    /\ out.arg = format
    /\ "FormattedTime" \notin DOMAIN out

\* C1: FormatTime (for a timestamp that gives an instant and a zone name that
\* is empty or resolves) and GetCurrentTime (likewise for the zone name) fail
\* with the unsupported-format error, and give no formatted output, whenever
\* the non-empty format identifier is not in the configured supportedFormats,
\* be it one of the seven recognized identifiers or a layout.
C1_UnsupportedFormatRejected ==
    /\ (/\ call.op = "FormatTime"
        /\ call.in.Format # ""
        /\ ~listed(call.in.Format)
        /\ call.in.Timezone \in ResolvableNames
        /\ timestampOf(call.in.Timestamp).ok)
       => rejected(call.out, call.in.Format)
    /\ (/\ call.op = "GetCurrentTime"
        /\ call.in.req.Format # ""
        /\ ~listed(call.in.req.Format)
        /\ call.in.req.Timezone \in ResolvableNames)
       => rejected(call.out, call.in.req.Format)

C1_Witness ==
    /\ call.op = "FormatTime"
    /\ call.in.Format = FormatUnix
    /\ supportedFormats = <<FormatRFC3339>>
    /\ call.in.Timestamp.type = "time"
    /\ call.in.Timezone = "America/New_York"
    /\ rejected(call.out, FormatUnix)

Granularity(format) ==
    CASE format \in {FormatRFC3339Nano, FormatUnixNano} -> 1
      [] format = FormatUnixMicro -> NanoPerMicro
      [] format = FormatUnixMilli -> NanoPerMilli
      [] OTHER -> NanoPerSec

sameInstant(p, t, unit) ==
    /\ p.ok
    /\ p.t.day = t.day
    /\ p.t.sod = t.sod
    /\ p.t.nsec = t.nsec - (t.nsec % unit)

\* C3: for each of the seven identifiers f in supportedFormats and every
\* instant t, parsing with f the string FormatTime produced for t with f gives
\* the instant t truncated to f's granularity.
C3_RoundTrip ==
    (/\ call.op = "FormatTime"
     /\ call.in.Timestamp.type = "time"
     /\ call.in.Format \in NamedFormats
     /\ call.out.ok)
    => sameInstant(parseTimeInternal(call.out.FormattedTime, call.in.Format),
                   call.in.Timestamp.t, Granularity(call.in.Format))

\* C4: whatever the caller does after NewTimeService returns, writing to the
\* elements of the slice it passed included, supportedFormats is the list
\* given at construction and IsFormatSupported answers by that list.
C4_ConfigFixed ==
    /\ supportedFormats = atNew
    /\ \A f \in NamedFormats \cup WriteSamples :
          IsFormatSupported(f) <=> \E i \in 1..Len(atNew) : atNew[i] = f

\* What a call returned, and a write to an element of a returned slice.
returnedEqual ==
    /\ call.op = "GetSupportedFormats"
       => /\ heap[call.out] = supportedFormats
          /\ call.out # svc.supportedFormats
    /\ call.op = "GetValidFormats"
       => /\ heap[call.out] = heap[passed]
          /\ call.out # passed

returnedWritten ==
    /\ held' = held
    /\ \E k \in 1..Len(held) : heap'[held[k]] # heap[held[k]]

invalidTimezone(out, timezone) ==
    /\ ~out.ok
    /\ out.err = ErrInvalidTimezone
    /\ out.arg = timezone

\* C6, as stated: with a non-empty timezone that does not resolve, FormatTime,
\* ParseTime and GetTimezoneInfo fail with the invalid-timezone error naming
\* it, whatever the other fields of the request.
C6_InvalidTimezoneAlways ==
    /\ (call.op \in {"FormatTime", "ParseTime"}
        /\ call.in.Timezone \notin ResolvableNames)
       => invalidTimezone(call.out, call.in.Timezone)
    /\ (call.op = "GetTimezoneInfo"
        /\ call.in.req.Timezone \notin ResolvableNames)
       => invalidTimezone(call.out, call.in.req.Timezone)

\* C6, amended: with a non-empty timezone that does not resolve,
\* GetTimezoneInfo fails with the invalid-timezone error naming it; FormatTime
\* does when the timestamp gives an instant, and fails with the timestamp's
\* error otherwise; ParseTime does when the time string parses under the
\* format, and fails with the parse error otherwise.
C6_InvalidTimezone ==
    /\ (call.op = "FormatTime" /\ call.in.Timezone \notin ResolvableNames)
       => IF timestampOf(call.in.Timestamp).ok
          THEN invalidTimezone(call.out, call.in.Timezone)
          ELSE ~call.out.ok /\ call.out.err \in {ErrParseTimestamp, ErrUnsupportedType}
    /\ (call.op = "ParseTime" /\ call.in.Timezone \notin ResolvableNames)
       => IF parseTimeInternal(call.in.TimeString,
                               orDefault(call.in.Format, svc.defaultFormat)).ok
          THEN invalidTimezone(call.out, call.in.Timezone)
          ELSE ~call.out.ok /\ call.out.err = ErrParseTimeString
    /\ (call.op = "GetTimezoneInfo" /\ call.in.req.Timezone \notin ResolvableNames)
       => invalidTimezone(call.out, call.in.req.Timezone)

C6_Witness ==
    /\ call.op = "ParseTime"
    /\ call.in.Timezone = InvalidTimezone
    /\ call.in.TimeString = DecText(SpringForward)
    /\ call.in.Format = FormatUnix
    /\ invalidTimezone(call.out, InvalidTimezone)

\* Two results that agree on success, on the formatted time and on the error.
sameFormatted(out, r) ==
    /\ out.ok <=> r.ok
    /\ out.ok => out.FormattedTime = r.FormattedTime
    /\ ~out.ok => (out.err = r.err /\ out.arg = r.arg)

unsupportedDefault(out) ==
    (~out.ok /\ out.err = ErrUnsupportedFormat)
    <=> ~listed(svc.defaultFormat)

currentInDefault(out, now, format) ==
    sameFormatted(out, GetCurrentTimeResult(
                           [Timezone |-> svc.defaultTimezone, Format |-> format], now))

\* C7: FormatTime with an empty format gives the formattedTime (or the error)
\* that FormatTime with format = defaultFormat gives for the same timestamp
\* and timezone and, where the timestamp gives an instant and the timezone
\* resolves, fails with the unsupported-format error exactly when
\* defaultFormat is not in supportedFormats; GetCurrentTime with an empty
\* timezone formats the current time in defaultTimezone and names
\* defaultTimezone in its result.
C7_EmptyFallsBack ==
    /\ (call.op = "FormatTime" /\ call.in.Format = "")
       => /\ sameFormatted(call.out,
                           FormatTimeResult([call.in EXCEPT !.Format = svc.defaultFormat]))
          /\ (timestampOf(call.in.Timestamp).ok /\ call.in.Timezone \in ResolvableNames)
             => unsupportedDefault(call.out)
    /\ (call.op = "GetCurrentTime" /\ call.in.req.Timezone = "")
       => /\ currentInDefault(call.out, call.in.now, call.in.req.Format)
          /\ call.out.ok
             => /\ call.out.Timezone = svc.defaultTimezone
                /\ call.out.FormattedTime =
                      formatSupported(In(call.in.now, LoadLocation(svc.defaultTimezone).loc),
                                      orDefault(call.in.req.Format, svc.defaultFormat))

C7_Witness ==
    /\ call.op = "FormatTime"
    /\ call.in.Format = ""
    /\ svc.defaultFormat = FormatUnix
    /\ call.in.Timezone = "America/New_York"
    /\ call.out.ok
    /\ call.out.FormattedTime.k = "dec"

\* C8: every operation that takes a zone name treats the empty name as the
\* configured defaultTimezone: its result with an empty name is its result
\* with defaultTimezone in that place.
C8_EmptyZoneIsDefault ==
    /\ (call.op = "GetCurrentTime" /\ call.in.req.Timezone = "")
       => call.out = GetCurrentTimeResult(
                         [call.in.req EXCEPT !.Timezone = svc.defaultTimezone], call.in.now)
    /\ (call.op = "GetTimezoneInfo" /\ call.in.req.Timezone = "")
       => call.out = GetTimezoneInfoResult(
                         [call.in.req EXCEPT !.Timezone = svc.defaultTimezone], call.in.now)
    /\ (call.op = "FormatTime" /\ call.in.Timezone = "")
       => call.out = FormatTimeResult([call.in EXCEPT !.Timezone = svc.defaultTimezone])
    /\ (call.op = "ParseTime" /\ call.in.Timezone = "")
       => call.out = ParseTimeResult([call.in EXCEPT !.Timezone = svc.defaultTimezone])
    /\ (call.op = "ConvertTimezone" /\ (call.in.fromTZ = "" \/ call.in.toTZ = ""))
       => call.out = ConvertTimezoneResult(call.in.t,
                                           orDefault(call.in.fromTZ, svc.defaultTimezone),
                                           orDefault(call.in.toTZ, svc.defaultTimezone))

\* C9: ConvertTimezone with a non-empty source name that does not resolve
\* fails, with an invalid-timezone error, whatever the zone t carries.
C9_InvalidSourceFails ==
    (call.op = "ConvertTimezone" /\ call.in.fromTZ \notin ResolvableNames)
    => /\ ~call.out.ok
       /\ call.out.err \in {ErrInvalidSource, ErrInvalidDestination}

\* The offsets a zone takes, whether some instant of the zone has the wall
\* clock reading wall, and the wall clock of the zone at the instant sec.
ZoneOffsets(loc) ==
    {RulesOf(loc).base.off}
    \cup {RulesOf(loc).trans[i].zone.off : i \in 1..Len(RulesOf(loc).trans)}

HasInstant(loc, wall) == \E o \in ZoneOffsets(loc) : Lookup(loc, wall - o).off = o

wallIn(loc, sec) == sec + Lookup(loc, sec).off

\* The fields were read in loc: the result has them on its wall clock there.
readIn(loc, sec, fields) == wallIn(loc, sec) = fields

\* The same, where the wall clock of loc skips the fields: the result is off
\* them by the width of the gap.
readInOrSkipped(loc, sec, fields) ==
    IF HasInstant(loc, fields) THEN wallIn(loc, sec) = fields
    ELSE /\ wallIn(loc, sec) # fields
         /\ \E a \in ZoneOffsets(loc), b \in ZoneOffsets(loc) :
               wallIn(loc, sec) - fields = a - b

parsedOf(input) ==
    parseTimeInternal(input.TimeString, orDefault(input.Format, svc.defaultFormat))

parseSupplied ==
    /\ call.op = "ParseTime"
    /\ call.in.Timezone # ""
    /\ call.in.Timezone \in ResolvableNames
    /\ parsedOf(call.in).ok

convertSupplied ==
    /\ call.op = "ConvertTimezone"
    /\ call.in.fromTZ # ""
    /\ call.in.fromTZ \in ResolvableNames
    /\ call.in.toTZ \in ResolvableNames

\* C10, as stated: ParseTime with a zone Z that resolves gives, when the
\* parsed value carries the UTC marker, the instant whose wall clock in Z reads
\* the parsed fields, and otherwise the parsed instant (same unix seconds), in
\* both cases in zone Z; ConvertTimezone does the same with the source zone.
C10_ReadInZoneAlways ==
    /\ parseSupplied
       => /\ call.out.ok
          /\ call.out.Timezone = call.in.Timezone
          /\ IF parsedOf(call.in).t.loc = UTC
             THEN readIn(LoadLocation(call.in.Timezone).loc, call.out.UnixTimestamp,
                         UnixOf(parsedOf(call.in).t))
             ELSE call.out.UnixTimestamp = UnixOf(parsedOf(call.in).t)
    /\ convertSupplied
       => /\ call.out.ok
          /\ call.out.t.loc = LoadLocation(call.in.toTZ).loc
          /\ IF call.in.t.loc = UTC
             THEN readIn(LoadLocation(call.in.fromTZ).loc, UnixOf(call.out.t),
                         UnixOf(call.in.t))
             ELSE UnixOf(call.out.t) = UnixOf(call.in.t)

\* C10, amended: as stated when some instant of Z has the parsed fields on its
\* wall clock; when Z's wall clock skips them (a forward transition), the
\* result is an instant whose wall clock in Z is off the parsed fields by the
\* width of the gap.
C10_ReadInZone ==
    /\ parseSupplied
       => /\ call.out.ok
          /\ call.out.Timezone = call.in.Timezone
          /\ IF parsedOf(call.in).t.loc = UTC
             THEN readInOrSkipped(LoadLocation(call.in.Timezone).loc,
                                  call.out.UnixTimestamp, UnixOf(parsedOf(call.in).t))
             ELSE call.out.UnixTimestamp = UnixOf(parsedOf(call.in).t)
    /\ convertSupplied
       => /\ call.out.ok
          /\ call.out.t.loc = LoadLocation(call.in.toTZ).loc
          /\ IF call.in.t.loc = UTC
             THEN readInOrSkipped(LoadLocation(call.in.fromTZ).loc, UnixOf(call.out.t),
                                  UnixOf(call.in.t))
             ELSE UnixOf(call.out.t) = UnixOf(call.in.t)

C10_Witness ==
    /\ call.op = "ParseTime"
    /\ call.in.Timezone = "America/New_York"
    /\ call.in.Format = FormatRFC3339
    /\ call.in.TimeString = RfcText(GapStart + HalfHour, 0, TRUE, 0)
    /\ call.out.ok
    /\ call.out.UnixTimestamp = SpringForward - HalfHour

\* A time string that denotes an absolute instant under the format, and the
\* unix seconds of that instant.
denotesInstant(s, format) ==
    \/ s.k = "dec"
       /\ format \in {FormatUnix, FormatUnixMilli, FormatUnixMicro, FormatUnixNano}
    \/ s.k = "rfc3339" /\ format \in {FormatRFC3339, FormatRFC3339Nano}

secondsOf(s, format) ==
    CASE format = FormatUnix -> s.n
      [] format = FormatUnixMilli -> s.n \div MilliPerSec
      [] format = FormatUnixMicro -> s.n \div MicroPerSec
      [] format = FormatUnixNano -> s.n \div NanoPerSec
      [] OTHER -> s.wall - s.off * SecondsPerMinute

parseAbsolute ==
    /\ call.op = "ParseTime"
    /\ call.in.Timezone \in ResolvableNames
    /\ denotesInstant(call.in.TimeString, orDefault(call.in.Format, svc.defaultFormat))

\* The fields of a Z string are read again in the zone supplied.
readAgain(input) ==
    /\ input.TimeString.k = "rfc3339"
    /\ input.TimeString.z
    /\ input.Timezone # ""
    /\ Lookup(LoadLocation(input.Timezone).loc, input.TimeString.wall).off # 0

\* C11, as stated: for a decimal integer parsed with Unix, UnixMilli,
\* UnixMicro or UnixNano, or an RFC 3339 string (Z or a numeric offset),
\* ParseTime returns the unix seconds of the instant the string denotes, for
\* every zone name that resolves and for the empty one.
C11_AbsoluteSecondsAlways ==
    parseAbsolute
    => /\ call.out.ok
       /\ call.out.UnixTimestamp =
             secondsOf(call.in.TimeString, orDefault(call.in.Format, svc.defaultFormat))

\* C11, amended: the same for a decimal integer and for an RFC 3339 string
\* with a numeric offset, and for an RFC 3339 string ending in Z when no zone
\* is supplied or the zone supplied has offset zero at that reading; a Z
\* string with any other zone supplied is read again in that zone, and the
\* unix seconds returned are not those of the instant the string denotes.
C11_AbsoluteSeconds ==
    parseAbsolute
    => /\ call.out.ok
       /\ IF readAgain(call.in)
          THEN call.out.UnixTimestamp # call.in.TimeString.wall
          ELSE call.out.UnixTimestamp =
                  secondsOf(call.in.TimeString,
                            orDefault(call.in.Format, svc.defaultFormat))

C11_Witness ==
    /\ call.op = "ParseTime"
    /\ call.in.TimeString = DecText(SpringForward)
    /\ call.in.Format = FormatUnix
    /\ call.in.Timezone = "Asia/Tokyo"
    /\ local = "America/New_York"
    /\ call.out.ok
    /\ call.out.UnixTimestamp = SpringForward

\* The reference instant of a GetTimezoneInfo call and the zone it asks about.
referenceOf(c) == IF c.req.ReferenceTime.zero THEN c.now ELSE c.req.ReferenceTime.t

zoneAsked(c) == LoadLocation(orDefault(c.req.Timezone, svc.defaultTimezone)).loc

\* C12: for every reference instant GetTimezoneInfo("UTC", reference) succeeds
\* with name "UTC", abbreviation "UTC", offsetSeconds 0, offset "+00:00" and
\* isDST false.
C12_UTCInfo ==
    (call.op = "GetTimezoneInfo" /\ call.in.req.Timezone = "UTC")
    => /\ call.out.ok
       /\ call.out.Name = "UTC"
       /\ call.out.Abbreviation = "UTC"
       /\ call.out.OffsetSeconds = 0
       /\ call.out.Offset = [sign |-> "+", hh |-> <<0, 0>>, mm |-> <<0, 0>>]
       /\ ~call.out.IsDST

C12_Witness ==
    /\ call.op = "GetTimezoneInfo"
    /\ call.in.req.Timezone = "UTC"
    /\ ~call.in.req.ReferenceTime.zero
    /\ UnixOf(call.in.req.ReferenceTime.t) = SpringForward
    /\ call.out.ok
    /\ call.out.OffsetSeconds = 0

\* C13: in every TimezoneInfo that GetTimezoneInfo returns, Offset is
\* formatOffset(OffsetSeconds) and OffsetSeconds is the offset of the zone at
\* the reference instant.
C13_OffsetOfZone ==
    (call.op = "GetTimezoneInfo" /\ call.out.ok)
    => /\ call.out.Offset = formatOffset(call.out.OffsetSeconds)
       /\ call.out.OffsetSeconds =
             Lookup(zoneAsked(call.in), UnixOf(referenceOf(call.in))).off

C13_Witness ==
    /\ call.op = "GetTimezoneInfo"
    /\ call.in.req.Timezone = "America/New_York"
    /\ ~call.in.req.ReferenceTime.zero
    /\ UnixOf(call.in.req.ReferenceTime.t) = SpringForward
    /\ call.out.ok
    /\ call.out.OffsetSeconds = EDT.off
    /\ call.out.Offset = [sign |-> "-", hh |-> <<0, 4>>, mm |-> <<0, 0>>]

(***************************************************************************)
(* formatOffset on its own: the offsets of Test_formatOffset and every      *)
(* other offset of up to 18 hours, to the half minute.                     *)
(***************************************************************************)
OffsetSecondsSamples ==
    {sgn * (m * SecondsPerMinute + h) :
        sgn \in {-1, 1}, m \in 0..(18 * SecondsPerMinute), h \in {0, 30}}
    \cap (-18 * SecondsPerHour)..(18 * SecondsPerHour)

FormatOffsetCall ==
    /\ call = NoCall
    /\ \E offsetSeconds \in OffsetSecondsSamples :
          Returns("formatOffset", offsetSeconds, formatOffset(offsetSeconds))

NextOffset ==
    \/ FormatOffsetCall
    \/ Return

SpecOffset == Init /\ [][NextOffset]_vars

\* The text sign, two digits, colon, two digits.
offsetText(sign, hours, minutes) ==
    [sign |-> sign,
     hh |-> <<hours \div 10, hours % 10>>,
     mm |-> <<minutes \div 10, minutes % 10>>]

magnitude(n) == IF n < 0 THEN -n ELSE n

\* C14: for every offsetSeconds of at most 18 hours either way, formatOffset
\* gives a sign, two digits of hours, a colon and two digits of minutes, with
\* hours = |offsetSeconds| div 3600, minutes = (|offsetSeconds| mod 3600) div
\* 60 and the sign '-' iff offsetSeconds < 0; 0 gives "+00:00", 3600
\* "+01:00", -3600 "-01:00", 5400 "+01:30", -5400 "-01:30", 43200 "+12:00"
\* and -43200 "-12:00".
C14_FormatOffset ==
    call.op = "formatOffset"
    => /\ call.out = offsetText(IF call.in < 0 THEN "-" ELSE "+",
                                magnitude(call.in) \div 3600,
                                (magnitude(call.in) % 3600) \div 60)
       /\ call.in = 0 => call.out = offsetText("+", 0, 0)
       /\ call.in = 3600 => call.out = offsetText("+", 1, 0)
       /\ call.in = -3600 => call.out = offsetText("-", 1, 0)
       /\ call.in = 5400 => call.out = offsetText("+", 1, 30)
       /\ call.in = -5400 => call.out = offsetText("-", 1, 30)
       /\ call.in = 43200 => call.out = offsetText("+", 12, 0)
       /\ call.in = -43200 => call.out = offsetText("-", 12, 0)

C14_Witness ==
    /\ call.op = "formatOffset"
    /\ call.in = -5400
    /\ call.out = [sign |-> "-", hh |-> <<0, 1>>, mm |-> <<3, 0>>]

\* The zone a ParseTime result names: an unnamed zone is the fixed offset
\* that the RFC3339 field shows.
resultZone(out) ==
    CASE out.Timezone = "" -> FixedZone("", out.RFC3339.off * SecondsPerMinute)
      [] out.Timezone = "UTC" -> UTC
      [] out.Timezone = "Local" -> LocalLoc
      [] OTHER -> NamedLoc(out.Timezone)

\* The flag is set iff the offset at t is greater than the offset six
\* calendar months after t, in the zone of t; it is not set in a zone with
\* one offset, nor in America/New_York in December.
sixMonthRule(flag, t) ==
    /\ flag <=> Lookup(t.loc, UnixOf(t)).off > Lookup(t.loc, UnixOf(AddDate(t, 6, 0))).off
    /\ Cardinality(ZoneOffsets(t.loc)) = 1 => ~flag
    /\ (/\ RulesOf(t.loc) = NewYorkRules
        /\ CivilFromDays(WallOf(t) \div SecondsPerDay).m = 12)
       => ~flag

\* C15: the isDST flag of GetTimezoneInfo, and of ParseTime, is true iff the
\* zone's offset at the reference instant is strictly greater than its offset
\* six calendar months later; so it is false for a zone whose offset never
\* changes and for America/New_York at a December reference.
C15_SixMonthRule ==
    /\ (call.op = "GetTimezoneInfo" /\ call.out.ok)
       => sixMonthRule(call.out.IsDST, In(referenceOf(call.in), zoneAsked(call.in)))
    /\ (call.op = "ParseTime" /\ call.out.ok)
       => sixMonthRule(call.out.IsDST,
                       MkTime(call.out.UnixTimestamp, 0, resultZone(call.out)))

C15_Witness ==
    /\ call.op = "GetTimezoneInfo"
    /\ call.in.req.Timezone = "America/New_York"
    /\ ~call.in.req.ReferenceTime.zero
    /\ UnixOf(call.in.req.ReferenceTime.t) = SpringForward
    /\ call.out.ok
    /\ call.out.IsDST

\* The days k of 1..365 at which the zone's offset at t plus k calendar days
\* differs from its offset a day earlier.
offsetAfter(t, k) == Lookup(t.loc, UnixOf(AddDate(t, 0, k))).off

changeDays(t) == {k \in 1..365 : offsetAfter(t, k) # offsetAfter(t, k - 1)}

\* The transition tr is the one at day k after t.
transitionAt(tr, t, k) ==
    /\ UnixOf(tr.NextTransition) = UnixOf(AddDate(t, 0, k))
    /\ tr.OffsetChange = offsetAfter(t, k) - offsetAfter(t, k - 1)
    /\ tr.OffsetChange # 0
    /\ tr.TransitionType = "enter_dst" <=> tr.OffsetChange > 0
    /\ tr.TransitionType = "exit_dst" <=> tr.OffsetChange < 0

firstChange(tr, t, days) ==
    /\ days # {}
    /\ transitionAt(tr, t, CHOOSE k \in days : \A j \in days : k <= j)

\* C16: a next transition that GetTimezoneInfo reports is at the smallest k
\* of 1..365 for which the zone's offset at the reference plus k calendar
\* days differs from the offset at the reference plus k - 1 days; its offset
\* change is the difference of the two, not zero, and its kind is enter_dst
\* iff the change is positive, exit_dst iff it is negative.
C16_NextTransition ==
    (call.op = "GetTimezoneInfo" /\ call.out.ok /\ call.out.DSTTransition.found)
    => firstChange(call.out.DSTTransition,
                   In(referenceOf(call.in), zoneAsked(call.in)),
                   changeDays(In(referenceOf(call.in), zoneAsked(call.in))))

C16_Witness ==
    /\ call.op = "GetTimezoneInfo"
    /\ call.in.req.Timezone = "America/New_York"
    /\ ~call.in.req.ReferenceTime.zero
    /\ UnixOf(call.in.req.ReferenceTime.t) = SpringForward - HalfHour
    /\ call.out.ok
    /\ call.out.DSTTransition.found
    /\ call.out.DSTTransition.TransitionType = "enter_dst"
    /\ call.out.DSTTransition.OffsetChange = SecondsPerHour
    /\ UnixOf(call.out.DSTTransition.NextTransition)
          = SpringForward - HalfHour + SecondsPerDay - SecondsPerHour

\* C17: the search ends within 365 day steps: where the zone's offset is the
\* same at the reference plus k calendar days for every k of 0..365,
\* GetTimezoneInfo succeeds and reports no transition, and a transition it
\* reports is never later than 365 calendar days after the reference.
C17_SearchBounded ==
    call.op = "GetTimezoneInfo"
    => /\ call.in.req.Timezone \in ResolvableNames => call.out.ok
       /\ call.out.ok
          => /\ changeDays(In(referenceOf(call.in), zoneAsked(call.in))) = {}
                => call.out.DSTTransition = NoTransition
             /\ call.out.DSTTransition.found
                => /\ UnixOf(call.out.DSTTransition.NextTransition)
                         > UnixOf(referenceOf(call.in))
                   /\ UnixOf(call.out.DSTTransition.NextTransition)
                         <= UnixOf(AddDate(In(referenceOf(call.in), zoneAsked(call.in)),
                                           0, 365))

C17_Witness ==
    /\ call.op = "GetTimezoneInfo"
    /\ call.in.req.Timezone = "Asia/Tokyo"
    /\ ~call.in.req.ReferenceTime.zero
    /\ call.out.ok
    /\ call.out.DSTTransition = NoTransition

\* The time string has the form the format reads: a decimal integer for the
\* unix identifiers, an RFC 3339 timestamp for the RFC 3339 ones, and for any
\* other format the text that the format, taken as a layout, describes.
readsAs(s, format) ==
    CASE format \in {FormatUnix, FormatUnixMilli, FormatUnixMicro, FormatUnixNano} ->
           s.k = "dec"
      [] format \in {FormatRFC3339, FormatRFC3339Nano} -> s.k = "rfc3339"
      [] format = DateTimeLayout -> s.k = "datetime"
      [] OTHER -> s.k = "lit" /\ s.txt = format

unlistedParse ==
    /\ call.op = "ParseTime"
    /\ call.in.Format # ""
    /\ ~listed(call.in.Format)

\* C18, as stated: ParseTime rejects, as unsupported, every request whose
\* format identifier is not in supportedFormats.
C18_ParseGated ==
    unlistedParse
    => /\ ~call.out.ok
       /\ call.out.err = ErrUnsupportedFormat

\* C18, amended: membership in supportedFormats gates formatting only;
\* ParseTime does not look at supportedFormats: with a format identifier that
\* is not in the list it parses the time string as it would any other, and
\* succeeds exactly when the string has the form the format reads and the
\* timezone is empty or resolves; it never fails as unsupported.
C18_ParseNotGated ==
    unlistedParse
    => /\ call.out.ok <=> /\ readsAs(call.in.TimeString, call.in.Format)
                          /\ call.in.Timezone \in ResolvableNames
       /\ ~call.out.ok => call.out.err # ErrUnsupportedFormat

C18_Witness ==
    /\ call.op = "ParseTime"
    /\ supportedFormats = <<FormatRFC3339>>
    /\ call.in.Format = FormatUnixMilli
    /\ call.in.TimeString = DecText(SpringForward)
    /\ call.in.Timezone = "America/New_York"
    /\ call.out.ok

\* C19: ParseTime ends in a result, a parse failure or an invalid timezone,
\* never in an unsupported format; a format other than RFC3339, RFC3339Nano,
\* Unix, UnixMilli, UnixMicro and UnixNano is the layout the string is parsed
\* with, listed in supportedFormats or not: "2006-01-02 15:04:05", not
\* listed, parses a date and time to the UTC instant with those fields.
C19_ParseOutcomes ==
    call.op = "ParseTime"
    => /\ call.out.ok \/ call.out.err \in {ErrParseTimeString, ErrInvalidTimezone}
       /\ orDefault(call.in.Format, svc.defaultFormat)
             \notin (NamedFormats \ {FormatLayout})
          => (call.out.ok <=> /\ readsAs(call.in.TimeString, call.in.Format)
                              /\ call.in.Timezone \in ResolvableNames)
       /\ (/\ call.in.Format = DateTimeLayout
           /\ call.in.TimeString.k = "datetime"
           /\ call.in.Timezone = "")
          => /\ call.out.ok
             /\ call.out.UnixTimestamp = call.in.TimeString.wall
             /\ call.out.Timezone = "UTC"

C19_Witness ==
    /\ call.op = "ParseTime"
    /\ supportedFormats = <<FormatRFC3339>>
    /\ call.in.Format = DateTimeLayout
    /\ call.in.TimeString = DateTimeText(SpringForward)
    /\ call.in.Timezone = ""
    /\ call.out.ok
    /\ call.out.UnixTimestamp = SpringForward

(***************************************************************************)
(* Loading the configuration: validate, then the service built from a      *)
(* configuration that validate accepted.                                   *)
(***************************************************************************)
MaxPort == 65535

\* strings.HasPrefix(path, "/"), for the paths sampled.
HasSlashPrefix(path) == path \in {"/", "/metrics"}

validateMetrics(config) ==
    IF ~config.Metrics.Enabled THEN [ok |-> TRUE]
    ELSE IF config.Metrics.Port <= 0 \/ config.Metrics.Port > MaxPort
    THEN Failure("metrics.port must be between 1 and 65535", "")
    ELSE IF config.Server.Port = config.Metrics.Port
    THEN Failure("metrics.port cannot be the same as server.port", "")
    ELSE IF config.Metrics.Path = ""
    THEN Failure("metrics.path cannot be empty when metrics are enabled", "")
    ELSE IF ~HasSlashPrefix(config.Metrics.Path)
    THEN Failure("metrics.path must start with '/'", config.Metrics.Path)
    ELSE [ok |-> TRUE]

validate(config) ==
    IF config.Server.Port <= 0 \/ config.Server.Port > MaxPort
    THEN Failure("server.port must be between 1 and 65535", "")
    ELSE IF config.Server.Host = ""
    THEN Failure("server.host cannot be empty", "")
    ELSE IF config.Time.DefaultTimezone = ""
    THEN Failure("time.default_timezone cannot be empty", "")
    ELSE IF ~LoadLocation(config.Time.DefaultTimezone).ok
    THEN Failure("invalid default timezone", config.Time.DefaultTimezone)
    ELSE IF config.Time.DefaultFormat = ""
    THEN Failure("time.default_format cannot be empty", "")
    ELSE IF Len(config.Time.SupportedFormats) = 0
    THEN Failure("time.supported_formats cannot be empty", "")
    ELSE IF config.Logging.Level \notin {"debug", "info", "warn", "error", "fatal"}
    THEN Failure("invalid logging.level", config.Logging.Level)
    ELSE IF config.Logging.Format \notin {"json", "console"}
    THEN Failure("invalid logging.format", config.Logging.Format)
    ELSE validateMetrics(config)

\* The configurations sampled: the defaults of setDefaults and the faults of
\* TestValidate, one field at a time or several.
ConfigSamples ==
    [Server : [Port : {0, 8080, MaxPort + 1}, Host : {"", "localhost"}],
     Time : [DefaultTimezone : {"", "UTC", "America/New_York", "Invalid/Zone"},
             DefaultFormat : {""} \cup DefaultFormatChoices,
             SupportedFormats : {<< >>} \cup SupportedChoices],
     Logging : [Level : {"info", "invalid"}, Format : {"json", "invalid"}],
     Metrics : {m \in [Enabled : BOOLEAN, Port : {0, 8080, 9080},
                       Path : {"", "/metrics", "metrics"}] :
                   m.Enabled \/ m.Port = 9080}]

\* No service yet: nothing has been loaded.
NoService == NewTimeService("", "", 1)

InitLoad ==
    /\ heap = [a \in Arrays |-> << >>]
    /\ atNew = << >>
    /\ passed = 1
    /\ svc = NoService
    /\ held = << >>
    /\ local \in LocalChoices
    /\ metrics = New
    /\ recorded = << >>
    /\ call = NoCall

\* Load, and NewTimeService with the time configuration it returned.
loaded(config, v) ==
    /\ call' = [op |-> "Load", in |-> config, out |-> v]
    /\ IF v.ok
       THEN /\ heap' = [heap EXCEPT ![passed] = config.Time.SupportedFormats]
            /\ atNew' = config.Time.SupportedFormats
            /\ svc' = NewTimeService(config.Time.DefaultTimezone,
                                     config.Time.DefaultFormat, passed)
       ELSE UNCHANGED <<heap, atNew, svc>>
    /\ UNCHANGED <<passed, held, local, metrics, recorded>>

Load ==
    /\ call = NoCall
    /\ svc = NoService
    /\ \E config \in ConfigSamples : loaded(config, validate(config))

\* The requests with an empty format, of a service that was loaded.
FormatTimeDefault ==
    /\ call = NoCall
    /\ svc # NoService
    /\ \E ts \in TimestampSamples, tz \in ZoneNames :
          Returns("FormatTime", [Timestamp |-> ts, Format |-> "", Timezone |-> tz],
                  FormatTimeResult([Timestamp |-> ts, Format |-> "", Timezone |-> tz]))

NextLoad ==
    \/ Load
    \/ FormatTimeDefault
    \/ Return

SpecLoad == InitLoad /\ [][NextLoad]_vars

\* C20: validate accepts a configuration only if its default timezone
\* resolves and its default format is one of its supported formats, so a
\* service built from an accepted configuration never fails with the
\* unsupported-format error when the format of the request is empty.
C20_DefaultFormatListed ==
    /\ (call.op = "Load" /\ call.out.ok)
       => /\ LoadLocation(call.in.Time.DefaultTimezone).ok
          /\ \E i \in 1..Len(call.in.Time.SupportedFormats) :
                call.in.Time.SupportedFormats[i] = call.in.Time.DefaultFormat
    /\ (call.op = "FormatTime" /\ call.in.Format = "" /\ ~call.out.ok)
       => call.out.err # ErrUnsupportedFormat

(***************************************************************************)
(* One service shared by several goroutines.  Here call is a function: for *)
(* each caller, where it is in the method it called.  A method reads the   *)
(* fields of the service when it runs; IsFormatSupported ranges over the   *)
(* slice an element at a time, and GetSupportedFormats makes its slice and *)
(* then copies; other callers take steps in between.                       *)
(***************************************************************************)
MaxCallers == 2

\* What a method returns when it runs from beginning to end with no other
\* caller in between.
resultAlone(op, input) ==
    CASE op = "GetCurrentTime" -> GetCurrentTimeResult(input.req, input.now)
      [] op = "FormatTime" -> FormatTimeResult(input)
      [] op = "ParseTime" -> ParseTimeResult(input)
      [] op = "GetTimezoneInfo" -> GetTimezoneInfoResult(input.req, input.now)
      [] op = "ConvertTimezone" -> ConvertTimezoneResult(input.t, input.fromTZ, input.toTZ)
      [] op = "IsFormatSupported" -> IsFormatSupported(input)
      [] OTHER -> supportedFormats

\* The service were GetCurrentTime to keep the timezone it was last asked for.
receiverAfterKeeping(op, input) ==
    IF op = "GetCurrentTime" /\ input.req.Timezone # ""
    THEN [svc EXCEPT !.defaultTimezone = input.req.Timezone]
    ELSE svc

\* The fields of the receiver after a method: no method assigns to them.
receiverAfter(op, input) == svc

InitShared ==
    /\ \E list \in SupportedChoices :
          /\ heap = [a \in Arrays |-> IF a = 1 THEN list ELSE << >>]
          /\ atNew = list
    /\ passed = 1
    /\ \E tz \in DefaultTimezoneChoices, f \in DefaultFormatChoices :
          svc = NewTimeService(tz, f, passed)
    /\ held = << >>
    /\ local \in LocalChoices
    /\ metrics = New
    /\ recorded = << >>
    /\ call = [g \in 1..MaxCallers |-> [pc |-> "idle"]]

\* The call is made, with a request of the tests.  The range expression and
\* the argument of make are evaluated on entry: the slice header is read
\* once.
Enter(g) ==
    /\ call[g].pc = "idle"
    /\ \E r \in
          {[op |-> "GetCurrentTime",
            in |-> [req |-> [Timezone |-> tz, Format |-> ""],
                    now |-> MkTime(0, 0, LocalLoc)]] : tz \in {"", "Asia/Tokyo"}}
          \cup {[op |-> "FormatTime",
                 in |-> [Timestamp |-> [type |-> "int", n |-> SpringForward],
                         Format |-> "", Timezone |-> ""]],
                [op |-> "ParseTime",
                 in |-> [TimeString |-> RfcText(SpringForward, 0, TRUE, 0),
                         Format |-> "", Timezone |-> "America/New_York"]],
                [op |-> "GetTimezoneInfo",
                 in |-> [req |-> [Timezone |-> "America/New_York",
                                  ReferenceTime |-> [zero |-> TRUE]],
                         now |-> MkTime(SpringForward - HalfHour, 0, LocalLoc)]],
                [op |-> "ConvertTimezone",
                 in |-> [t |-> MkTime(0, 0, UTC), fromTZ |-> "", toTZ |-> "Asia/Tokyo"]],
                [op |-> "IsFormatSupported", in |-> FormatUnixMilli],
                [op |-> "GetSupportedFormats", in |-> ""]} :
          call' = [call EXCEPT ![g] =
                      [pc |-> "entered", op |-> r.op, in |-> r.in, i |-> 0,
                       len |-> Len(supportedFormats), formats |-> << >>]]
    /\ UNCHANGED <<heap, svc, passed, held, atNew, local, metrics, recorded>>

\* The five operations on times: the method runs and returns.
Run(g) ==
    /\ call[g].pc = "entered"
    /\ call[g].op \notin {"IsFormatSupported", "GetSupportedFormats"}
    /\ call' = [call EXCEPT ![g] =
                   [pc |-> "returned", op |-> call[g].op, in |-> call[g].in,
                    out |-> resultAlone(call[g].op, call[g].in)]]
    /\ svc' = receiverAfter(call[g].op, call[g].in)
    /\ UNCHANGED <<heap, passed, held, atNew, local, metrics, recorded>>

\* One iteration of the range loop of IsFormatSupported, or its end.
Range(g) ==
    /\ call[g].pc = "entered"
    /\ call[g].op = "IsFormatSupported"
    /\ call' = [call EXCEPT ![g] =
                   IF call[g].i = call[g].len
                   THEN [pc |-> "returned", op |-> call[g].op, in |-> call[g].in,
                         out |-> FALSE]
                   ELSE IF supportedFormats[call[g].i + 1] = call[g].in
                   THEN [pc |-> "returned", op |-> call[g].op, in |-> call[g].in,
                         out |-> TRUE]
                   ELSE [call[g] EXCEPT !.i = @ + 1]]
    /\ svc' = receiverAfter(call[g].op, call[g].in)
    /\ UNCHANGED <<heap, passed, held, atNew, local, metrics, recorded>>

\* formats := make([]string, len(s.supportedFormats))
Make(g) ==
    /\ call[g].pc = "entered"
    /\ call[g].op = "GetSupportedFormats"
    /\ call' = [call EXCEPT ![g] =
                   [call[g] EXCEPT !.pc = "made",
                                   !.formats = [k \in 1..call[g].len |-> ""]]]
    /\ svc' = receiverAfter(call[g].op, call[g].in)
    /\ UNCHANGED <<heap, passed, held, atNew, local, metrics, recorded>>

\* copy(formats, s.supportedFormats); return formats
Copy(g) ==
    /\ call[g].pc = "made"
    /\ call' = [call EXCEPT ![g] =
                   [pc |-> "returned", op |-> call[g].op, in |-> call[g].in,
                    out |-> [k \in 1..Len(call[g].formats) |->
                                IF k <= Len(supportedFormats) THEN supportedFormats[k]
                                ELSE call[g].formats[k]]]]
    /\ svc' = receiverAfter(call[g].op, call[g].in)
    /\ UNCHANGED <<heap, passed, held, atNew, local, metrics, recorded>>

\* The caller has its result and goes on.
Leave(g) ==
    /\ call[g].pc = "returned"
    /\ call' = [call EXCEPT ![g] = [pc |-> "idle"]]
    /\ UNCHANGED <<heap, svc, passed, held, atNew, local, metrics, recorded>>

SpecShared ==
    InitShared
    /\ [][\E g \in 1..MaxCallers :
             Enter(g) \/ Run(g) \/ Range(g) \/ Make(g) \/ Copy(g) \/ Leave(g)]_vars

\* C21: with one service shared by concurrent callers and no locking, no
\* method writes to defaultTimezone, defaultFormat or supportedFormats, and
\* under every interleaving each call returns what it returns when it runs
\* alone with the same input and clock value.
C21_SharedWithoutLocks ==
    /\ [][svc' = svc /\ heap' = heap]_vars
    /\ [](\A g \in 1..MaxCallers :
             call[g].pc = "returned"
                => call[g].out = resultAlone(call[g].op, call[g].in))

\* One caller has returned from GetCurrentTime in the default zone while
\* another is inside the loop of IsFormatSupported: the calls overlap.
C21_Witness ==
    \E g \in 1..MaxCallers, h \in 1..MaxCallers :
        /\ g # h
        /\ call[g].pc = "returned"
        /\ call[g].op = "GetCurrentTime"
        /\ call[g].in.req.Timezone = ""
        /\ call[g].out.ok
        /\ call[h].pc = "entered"
        /\ call[h].op = "IsFormatSupported"
        /\ call[h].i > 0

(***************************************************************************)
(* Further properties of the operations.                                   *)
(***************************************************************************)
\* The formats a time string may be written in: the identifiers that name a
\* form, and the layout of the tests.
WrittenFormats == (NamedFormats \ {FormatLayout}) \cup {DateTimeLayout}

\* C22: ParseTime with an empty format detects the format of the time
\* string: a string valid in some format, the configured default or another,
\* is parsed successfully when the timezone is empty or resolves.
C22_AutoDetect ==
    (/\ call.op = "ParseTime"
     /\ call.in.Format = ""
     /\ call.in.Timezone \in ResolvableNames
     /\ \E f \in WrittenFormats : readsAs(call.in.TimeString, f))
    => call.out.ok

\* The elements of the configured list.
listedFormats == {supportedFormats[i] : i \in 1..Len(supportedFormats)}

\* C23: IsFormatSupported(id) is true exactly when id is, as a string, an
\* element of the configured supportedFormats, so it is false for "" and for
\* an identifier not listed; IsValidFormat is true exactly for RFC3339,
\* RFC3339Nano, Unix, UnixMilli, UnixMicro, UnixNano and Layout, whatever the
\* list; and formatting goes ahead exactly when IsFormatSupported holds of
\* the format asked for, valid or not.
C23_SupportedIsListed ==
    /\ call.op = "IsFormatSupported"
       => /\ call.out <=> call.in \in listedFormats
          /\ call.in = "" => ~call.out
    /\ \A f \in FormatSamples :
          IsValidFormat(f)
             <=> f \in {"RFC3339", "RFC3339Nano", "Unix", "UnixMilli",
                        "UnixMicro", "UnixNano", "Layout"}
    /\ (/\ call.op = "FormatTime"
        /\ call.in.Format # ""
        /\ call.in.Timezone \in ResolvableNames
        /\ timestampOf(call.in.Timestamp).ok)
       => (call.out.ok <=> call.in.Format \in listedFormats)

\* A layout that is listed but is none of the seven names is supported.
C23_Witness ==
    /\ call.op = "IsFormatSupported"
    /\ call.in = DateTimeLayout
    /\ ~IsValidFormat(call.in)
    /\ call.out

\* The instant an RFC 3339 string writes, in unix seconds.
instantWritten(s) == IF s.z THEN s.wall ELSE s.wall - s.off * SecondsPerMinute

\* The zone and the format of a FormatTime request are ones it can use.
formatUsable(input) ==
    /\ orDefault(input.Timezone, svc.defaultTimezone) \in ResolvableNames
    /\ orDefault(input.Format, svc.defaultFormat) \in listedFormats

\* C24: FormatTime takes a string timestamp that is a decimal integer n as
\* the instant n seconds after the epoch, any other string that is valid
\* RFC 3339 as the instant it writes, and fails with the parse error, before
\* it looks at the timezone or the format, for a string that is neither; a
\* timestamp that is no string, integer, float or time fails as unsupported.
C24_StringTimestamp ==
    call.op = "FormatTime"
    => /\ (call.in.Timestamp.type = "string" /\ call.in.Timestamp.s.k = "dec")
          => /\ call.out.ok <=> formatUsable(call.in)
             /\ call.out.ok => call.out.UnixTimestamp = call.in.Timestamp.s.n
       /\ (call.in.Timestamp.type = "string" /\ call.in.Timestamp.s.k = "rfc3339")
          => /\ call.out.ok <=> formatUsable(call.in)
             /\ call.out.ok
                => call.out.UnixTimestamp = instantWritten(call.in.Timestamp.s)
       /\ (/\ call.in.Timestamp.type = "string"
           /\ call.in.Timestamp.s.k \notin {"dec", "rfc3339"})
          => /\ ~call.out.ok
             /\ call.out.err = ErrParseTimestamp
       /\ call.in.Timestamp.type \notin {"string", "int", "int64", "float64", "time"}
          => /\ ~call.out.ok
             /\ call.out.err = ErrUnsupportedType

\* A decimal string formatted in New York keeps the seconds it writes.
C24_Witness ==
    /\ call.op = "FormatTime"
    /\ call.in.Timestamp = [type |-> "string", s |-> DecText(SpringForward)]
    /\ call.in.Timezone = "America/New_York"
    /\ call.out.ok
    /\ call.out.UnixTimestamp = SpringForward

\* C25: ConvertTimezone resolves the destination zone before anything else:
\* when toTZ does not resolve the call fails with the invalid-destination
\* error naming toTZ, whatever the instant and whatever fromTZ, resolvable
\* or not.
C25_DestinationFirst ==
    (call.op = "ConvertTimezone" /\ call.in.toTZ \notin ResolvableNames)
    => /\ ~call.out.ok
       /\ call.out.err = ErrInvalidDestination
       /\ call.out.arg = call.in.toTZ

\* Neither zone resolves, and the time is one whose source would be looked at.
C25_Witness ==
    /\ call.op = "ConvertTimezone"
    /\ call.in.toTZ = InvalidTimezone
    /\ call.in.fromTZ = InvalidTimezone
    /\ call.in.t.loc = UTC
    /\ ~call.out.ok
    /\ call.out.err = ErrInvalidDestination

\* The offset of the zone asked for at the instant sec.
offsetAsked(c, sec) == Lookup(zoneAsked(c), sec).off

\* C26: the instant of a next-transition descriptor is the transition
\* itself: the zone's offset a second before it is the offset at the
\* reference, and at it the offset is the new one, and the offset does not
\* change between the reference and it.
C26_TransitionInstant ==
    (call.op = "GetTimezoneInfo" /\ call.out.ok /\ call.out.DSTTransition.found)
    => /\ offsetAsked(call.in, UnixOf(call.out.DSTTransition.NextTransition) - 1)
             = offsetAsked(call.in, UnixOf(referenceOf(call.in)))
       /\ offsetAsked(call.in, UnixOf(call.out.DSTTransition.NextTransition))
             = offsetAsked(call.in, UnixOf(referenceOf(call.in)))
                  + call.out.DSTTransition.OffsetChange

(***************************************************************************)
(* The Metrics instance in use: the Record methods, called with the label  *)
(* values of the tests.                                                    *)
(***************************************************************************)
\* Record calls made in one run.
MaxRecords == 3

RecordToolRequestDuration ==
    /\ Len(recorded) < MaxRecords
    /\ \E tool \in {"get_time", "format_time"}, status \in {"success"},
          duration \in {100, 200} :
          /\ metrics' = [metrics EXCEPT !.ToolRequestDuration =
                             Observe(@, <<tool, status>>, duration)]
          /\ recorded' = Append(recorded, [metric |-> "ToolRequestDuration",
                                           lvs |-> <<tool, status>>])
    /\ UNCHANGED <<heap, svc, passed, held, atNew, local, call>>

RecordTimeOperationDuration ==
    /\ Len(recorded) < MaxRecords
    /\ \E operation \in {"get_time", "parse_time"}, status \in {"error"},
          duration \in {1} :
          /\ metrics' = [metrics EXCEPT !.TimeOperationDuration =
                             Observe(@, <<operation, status>>, duration)]
          /\ recorded' = Append(recorded, [metric |-> "TimeOperationDuration",
                                           lvs |-> <<operation, status>>])
    /\ UNCHANGED <<heap, svc, passed, held, atNew, local, call>>

RecordTransportRequest ==
    /\ Len(recorded) < MaxRecords
    /\ \E transport \in {"sse", "streamable"}, method \in {"POST"},
          status \in {"success", "error"} :
          /\ metrics' = [metrics EXCEPT !.TransportRequestsTotal =
                             Inc(@, <<transport, method, status>>)]
          /\ recorded' = Append(recorded, [metric |-> "TransportRequestsTotal",
                                           lvs |-> <<transport, method, status>>])
    /\ UNCHANGED <<heap, svc, passed, held, atNew, local, call>>

\* RecordError were it to pass the label values the other way round.
RecordErrorSwapped ==
    /\ Len(recorded) < MaxRecords
    /\ \E category \in {"validation", "time"},
          errorType \in {"invalid_timezone", "parse_failure"} :
          /\ metrics' = [metrics EXCEPT !.ErrorsTotal =
                             Inc(@, <<errorType, category>>)]
          /\ recorded' = Append(recorded, [metric |-> "ErrorsTotal",
                                           lvs |-> <<category, errorType>>])
    /\ UNCHANGED <<heap, svc, passed, held, atNew, local, call>>

RecordError ==
    /\ Len(recorded) < MaxRecords
    /\ \E category \in {"validation", "time"},
          errorType \in {"invalid_timezone", "parse_failure"} :
          /\ metrics' = [metrics EXCEPT !.ErrorsTotal =
                             Inc(@, <<category, errorType>>)]
          /\ recorded' = Append(recorded, [metric |-> "ErrorsTotal",
                                           lvs |-> <<category, errorType>>])
    /\ UNCHANGED <<heap, svc, passed, held, atNew, local, call>>

SpecMetrics ==
    Init
    /\ [][\/ RecordToolRequestDuration
          \/ RecordTimeOperationDuration
          \/ RecordTransportRequest
          \/ RecordError]_vars

\* The calls so far that named the metric with the label values lvs.
callsWith(metric, lvs) ==
    Cardinality({i \in 1..Len(recorded) :
                    recorded[i] = [metric |-> metric, lvs |-> lvs]})

\* The value of the counter of lvs: zero when it has no child.
counterOf(vec, lvs) == IF lvs \in DOMAIN vec THEN vec[lvs] ELSE 0

\* The label values a call may have named: those of the calls made, and
\* those that have a child.
labelsSeen(metric) ==
    DOMAIN metrics[metric] \cup {recorded[i].lvs : i \in 1..Len(recorded)}

\* C27: after any sequence of RecordError and RecordTransportRequest calls,
\* among calls of the other Record methods, the counter of each label tuple
\* is the number of calls made with exactly that tuple, and each histogram
\* has observed as often as its method was called with the tuple: a call
\* adds one to its own tuple and leaves every other tuple and metric alone.
C27_CountersCountCalls ==
    /\ \A metric \in {"ErrorsTotal", "TransportRequestsTotal"} :
          \A lvs \in labelsSeen(metric) :
             counterOf(metrics[metric], lvs) = callsWith(metric, lvs)
    /\ \A metric \in {"ToolRequestDuration", "TimeOperationDuration"} :
          \A lvs \in DOMAIN metrics[metric] :
             metrics[metric][lvs].count = callsWith(metric, lvs)

\* Two errors of one kind and a transport request have been recorded.
C27_Witness ==
    /\ callsWith("ErrorsTotal", <<"time", "invalid_timezone">>) = 2
    /\ metrics.ErrorsTotal[<<"time", "invalid_timezone">>] = 2
    /\ callsWith("TransportRequestsTotal", <<"sse", "POST", "success">>) = 1
    /\ <<"validation", "invalid_timezone">> \notin DOMAIN metrics.ErrorsTotal

\* C28: formatOffset never gives "-00:00": whenever the hours and the
\* minutes it writes are both zero, negative offsets of less than a minute
\* included, the sign is '+'.
C28_NoNegativeZero ==
    (/\ call.op = "formatOffset"
     /\ call.out.hh = <<0, 0>>
     /\ call.out.mm = <<0, 0>>)
    => call.out.sign = "+"

\* The zone of t has no offset above the one at t on any of the 365 days
\* after t.
noHigherOffset(t) == \A k \in 1..365 : offsetAfter(t, k) <= offsetAfter(t, 0)

\* C29, as stated: when isDST is true a next transition is reported and its
\* kind is exit_dst, in every zone and at every reference.
C29_DSTResultsAgreeAlways ==
    (call.op = "GetTimezoneInfo" /\ call.out.ok /\ call.out.IsDST)
    => /\ call.out.DSTTransition.found
       /\ call.out.DSTTransition.TransitionType = "exit_dst"

\* C29, amended: when isDST is true a next transition is reported; its kind
\* is exit_dst exactly when its offset change is negative, which it is in a
\* zone that has no offset above the reference's in the 365 days searched;
\* where the zone goes on to a higher offset first, as Europe/Berlin does in
\* May 1947, the kind is enter_dst although isDST is true.
C29_DSTResultsAgree ==
    (call.op = "GetTimezoneInfo" /\ call.out.ok /\ call.out.IsDST)
    => /\ call.out.DSTTransition.found
       /\ call.out.DSTTransition.TransitionType = "exit_dst"
             <=> call.out.DSTTransition.OffsetChange < 0
       /\ noHigherOffset(In(referenceOf(call.in), zoneAsked(call.in)))
             => call.out.DSTTransition.TransitionType = "exit_dst"
       /\ (/\ call.in.req.Timezone = "Europe/Berlin"
           /\ UnixOf(referenceOf(call.in)) = -715435200)
             => call.out.DSTTransition.TransitionType = "enter_dst"

\* Europe/Berlin on 1 May 1947, in summer time with midsummer time ahead:
\* isDST is true and the next transition is one to a higher offset.
C29_Witness ==
    /\ call.op = "GetTimezoneInfo"
    /\ call.in.req.Timezone = "Europe/Berlin"
    /\ UnixOf(referenceOf(call.in)) = -715435200
    /\ call.out.ok
    /\ call.out.IsDST
    /\ call.out.DSTTransition.found
    /\ call.out.DSTTransition.OffsetChange = SecondsPerHour

\* C30: in every successful GetCurrentTime and FormatTime result the format
\* is the identifier that was used, the configured default when the request
\* has none; the timezone is the name of the zone that was used, the
\* configured default when the request has none; and the unix timestamp is
\* that of the input instant whatever the zone.
C30_ResultFields ==
    /\ (call.op = "GetCurrentTime" /\ call.out.ok)
       => /\ call.out.Format = orDefault(call.in.req.Format, svc.defaultFormat)
          /\ call.out.Timezone = orDefault(call.in.req.Timezone, svc.defaultTimezone)
          /\ call.out.UnixTimestamp = UnixOf(call.in.now)
    /\ (call.op = "FormatTime" /\ call.out.ok)
       => /\ call.out.Format = orDefault(call.in.Format, svc.defaultFormat)
          /\ call.out.Timezone = orDefault(call.in.Timezone, svc.defaultTimezone)
          /\ call.out.UnixTimestamp = UnixOf(timestampOf(call.in.Timestamp).t)

====
